---------------------------- MODULE Spec2Model ----------------------------
(***************************************************************************)
(* Remote Jupyter server provider of the Jupyter extension:                *)
(*   src/src/standalone/userJupyterServer/userServerUrlProvider.ts         *)
(* NewStorage (the server store), parseUri and the storage format,         *)
(* SecureConnectionValidator, and captureRemoteJupyterUrl (the capture     *)
(* workflow) as state machines whose steps are the code between two        *)
(* awaits.                                                                 *)
(***************************************************************************)
EXTENDS Integers, Sequences, FiniteSets, TLC

\* ------------------------------------------------------------------ bounds
MaxCalls == 3       \* add/remove/clear calls issued on one NewStorage
MaxItems == 3       \* entries of the stored array when the process starts
MaxRuns == 1        \* commands that run the capture workflow
MaxOps == 2         \* provider calls other than commands
MaxSegments == 3    \* path segments of an entered url

\* ------------------------------------------------------------------- URIs
\* A user-entered URI string, by the parts `new URL` and the prefix test of
\* parseUri look at.  wellFormed = FALSE is a string `new URL` throws on.
\* path is the list of path segments (<<>> is the path "/"), query is
\* "none" (no "?"), "bare" (a "?" with nothing after it) or "token"
\* ("?token=<token>").  slash = FALSE is a string with nothing between
\* the host and the query or the end, as in "http://localhost".
MkUri(wf, scheme, host, path, query, token) ==
    [scheme |-> scheme, host |-> host, path |-> path, query |-> query,
     token |-> token, wellFormed |-> wf, slash |-> TRUE]

UriA == MkUri(TRUE, "http", "localhost", <<>>, "token", "abc")
UriB == MkUri(TRUE, "https", "example.com", <<"lab">>, "none", "")
UriSentinel == MkUri(TRUE, "https", "remote", <<"x">>, "none", "")
UriGarbage == MkUri(FALSE, "", "not a url", <<>>, "none", "")

\* Mutation: the reserved prefix is not tested.
startsWithRemoteUriUntested(uri) == FALSE

\* Identifiers.REMOTE_URI is 'https://remote/': uri.startsWith(REMOTE_URI)
startsWithRemoteUri(uri) ==
    uri.wellFormed /\ uri.scheme = "https" /\ uri.host = "remote"

\* A base URL `${protocol}//${host}${pathname or ''}`: hasPath = FALSE is
\* the string without any path, not even "/".
NoBaseUrl == [scheme |-> "", host |-> "", path |-> <<>>, hasPath |-> FALSE]

\* The value parseUri returns: ok = FALSE is `undefined`.
NoServerInfo ==
    [token |-> "", ok |-> FALSE, baseUrl |-> NoBaseUrl, displayName |-> "",
     authorizationHeader |-> "none"]

\* parseUri(uri, displayName)
parseUri(uri, displayName) ==
    IF startsWithRemoteUri(uri) THEN NoServerInfo
    ELSE IF ~uri.wellFormed THEN NoServerInfo
    ELSE [token |-> IF uri.query = "token" THEN uri.token ELSE "",
          ok |-> TRUE,
          baseUrl |-> [scheme |-> uri.scheme, host |-> uri.host,
                       path |-> IF uri.path = <<"lab">> \/ uri.path = <<"tree">>
                                THEN <<>> ELSE uri.path,
                       hasPath |-> ~(uri.path = <<"lab">>
                                     \/ uri.path = <<"tree">>)],
          displayName |-> IF displayName # "" THEN displayName ELSE uri.host,
          authorizationHeader |-> "none"]

\* ------------------------------------------------------- storage format
\* A stored server { handle, uri, serverInfo } and a StorageItem
\* { handle, uri, displayName }.
MkServer(handle, uri, serverInfo) ==
    [uri |-> uri, handle |-> handle, serverInfo |-> serverInfo]

MkItem(handle, uri, displayName) ==
    [uri |-> uri, displayName |-> displayName, handle |-> handle]

\* serverToStorageFormat that copies the token as well.
serverToStorageFormatWithToken(list) ==
    [i \in 1..Len(list) |->
        [token |-> list[i].serverInfo.token, uri |-> list[i].uri,
         displayName |-> list[i].serverInfo.displayName,
         handle |-> list[i].handle]]

serverToStorageFormat(list) ==
    [i \in 1..Len(list) |->
        MkItem(list[i].handle, list[i].uri, list[i].serverInfo.displayName)]

RECURSIVE storageFormatToServers(_)
storageFormatToServers(items) ==
    IF items = <<>> THEN <<>>
    ELSE LET s == Head(items)
             server == parseUri(s.uri, s.displayName)
         IN  IF ~server.ok THEN storageFormatToServers(Tail(items))
             ELSE <<MkServer(s.handle, s.uri, server)>>
                  \o storageFormatToServers(Tail(items))

\* The payload under UserJupyterServerUriListKeyV2 in encrypted storage:
\* kind "missing" is undefined, "empty" is '', "invalid" is text that
\* JSON.parse throws on, "array" is the JSON text of items ('[]' when
\* items is empty).
Payload(kind, items) == [items |-> items, kind |-> kind]
PayloadMissing == Payload("missing", <<>>)
PayloadEmpty == Payload("empty", <<>>)
PayloadInvalid == Payload("invalid", <<>>)
JSONstringify(items) == Payload("array", items)

\* What the code of getServers after the retrieve makes of `data`:
\* the list it returns and whether it assigns that list to this.servers.
\* threw = TRUE is an exception that leaves getServers (none does: the
\* try block holds JSON.parse and storageFormatToServers).
getServersLoad(payload) ==
    IF payload.kind \in {"missing", "empty"} \/ payload = JSONstringify(<<>>)
    THEN [list |-> <<>>, cached |-> FALSE, threw |-> FALSE]
    ELSE IF payload.kind = "invalid"
    THEN [list |-> <<>>, cached |-> FALSE, threw |-> FALSE]
    ELSE [list |-> storageFormatToServers(payload.items), cached |-> TRUE,
          threw |-> FALSE]

\* Mutation: ignoreCache is not looked at.
getServersFromCacheAlways(cache, ignoreCache) == cache.loaded

\* `this.servers && !ignoreCache`
getServersFromCache(cache, ignoreCache) == cache.loaded /\ ~ignoreCache

\* Array helpers of add and remove.
WithoutHandle(list, handle) ==
    SelectSeq(list, LAMBDA s : s.handle # handle)

HandlesOf(list) == {list[i].handle : i \in 1..Len(list)}


\* ------------------------------------------------------------ store state
VARIABLES
    data,           \* the payload in encrypted storage
    data0,          \* the payload when the process started
    servers,        \* NewStorage.servers: [loaded, list, ref]
    calls,          \* the add/remove/clear calls issued so far, in order
    outcome,        \* per call: "pending", "resolved" or "rejected"
    updatePromise,  \* how NewStorage.updatePromise last settled
    head,           \* the call whose queued callback runs (or runs next)
    jobpc,          \* where that callback is: idle, retrieve, loaded, store
    jobSnap,        \* the payload its retrieve returns
    jobLoaded,      \* the list its getServers(true) returned
    jobPayload,     \* the payload its store call writes
    failedCalls,    \* the calls one of whose storage calls failed
    rd,             \* an outside getServers(false) call in flight
    res             \* what the last such call returned, if no add, remove
                    \* or clear was called since

storeVars ==
    <<data, data0, servers, calls, outcome, updatePromise, head, jobpc,
      jobSnap, jobLoaded, jobPayload, failedCalls, rd, res>>

\* ------------------------------------------------------- provider state
VARIABLES
    wf,             \* the locals of the captureRemoteJupyterUrl call
    cancelled,      \* token.isCancellationRequested of that call
    allowInsecure,  \* globalMemento[GlobalStateUserAllowsInsecureConnections]
    consented,      \* the user answered Yes at the insecure prompt
    initialized,    \* _cachedServerInfoInitialized is set
    fired,          \* how often _onDidChangeHandles fired
    runs,           \* how many commands and provider calls were started
    api,            \* the handleCommand, provideJupyterServers,
                    \* removeJupyterServer or resolveJupyterServer call
                    \* in progress, and what the last one returned
    other           \* a second captureRemoteJupyterUrl call, from the
                    \* point where it calls addNewServer

flowVars ==
    <<wf, cancelled, allowInsecure, consented, initialized, fired, runs, api, other>>

\* --------------------------------------------------------- kernel state
VARIABLES
    wrapper,        \* one WrappedKernelPerExtension and the executeCode
                    \* calls made on it
    access          \* the access policy: how often it was asked and how
                    \* often it announced a change of permissions

kernelVars == <<wrapper, access>>

\* The identity of an array object.  Two objects are held at a time (the
\* cache and the last result), so three names tell all of them apart.
NoRef == 0
NewRef == CHOOSE n \in 1..3 :
              /\ n \notin {servers.ref, res.ref}
              /\ \A m \in 1..(n - 1) : m \in {servers.ref, res.ref}

Cache(list, ref) == [list |-> list, loaded |-> TRUE, ref |-> ref]
NotLoaded == [list |-> <<>>, loaded |-> FALSE, ref |-> NoRef]

NoServer == MkServer(0, UriGarbage, NoServerInfo)
Call(op, server, handle) == [handle |-> handle, server |-> server, op |-> op]

QueueIdle == head > Len(calls)

\* A result of getServers(false): the list, the object it is, whether the
\* call read the storage, whether add, remove or clear was called while it
\* ran, and whether the queue was idle when it returned.
NoResult ==
    [list |-> <<>>, threw |-> FALSE, ref |-> NoRef, valid |-> FALSE,
     didRead |-> FALSE, overlapped |-> FALSE, idle |-> FALSE]
Result(list, ref, didRead, overlapped) ==
    [list |-> list, threw |-> FALSE, ref |-> ref, valid |-> TRUE,
     didRead |-> didRead, overlapped |-> overlapped, idle |-> QueueIdle]
Thrown(overlapped) ==
    [list |-> <<>>, threw |-> TRUE, ref |-> NoRef, valid |-> TRUE,
     didRead |-> TRUE, overlapped |-> overlapped, idle |-> QueueIdle]

RdIdle == [overlapped |-> FALSE, pc |-> "idle", snap |-> PayloadMissing]

\* The servers the outside world hands to add(): what the capture
\* workflow builds from a validated URL.
Handles == {1, 2}
ServerInputs ==
    { MkServer(1, UriA, parseUri(UriA, "")),
      MkServer(2, UriB, parseUri(UriB, "")) }

\* Payloads the storage may hold when the process starts.
StartPayloads ==
    { PayloadMissing,
      JSONstringify(<<MkItem(2, UriGarbage, "x"), MkItem(1, UriA, "one")>>) }

StoreInit ==
    /\ data \in StartPayloads
    /\ data0 = data
    /\ servers = NotLoaded
    /\ calls = <<>>
    /\ outcome = <<>>
    /\ updatePromise = "resolved"
    /\ head = 1
    /\ jobpc = "idle"
    /\ jobSnap = PayloadMissing
    /\ jobLoaded = <<>>
    /\ jobPayload = PayloadMissing
    /\ failedCalls = {}
    /\ rd = RdIdle
    /\ res = NoResult

\* ------------------------------------------------------ NewStorage calls
\* Mutation: the chained promise has no .catch(noop).
catchNothing(settled) == settled

\* `.catch(noop)`: whatever the queued callback did, the promise resolves.
catchNoop(settled) == "resolved"

\* The synchronous part of add/remove/clear: the update of this.servers
\* and the chaining of the callback on updatePromise.
Enqueue(call) ==
    /\ Len(calls) < MaxCalls
    /\ calls' = Append(calls, call)
    /\ outcome' = Append(outcome, "pending")
    /\ rd' = [rd EXCEPT !.overlapped = (rd.pc = "retrieving")]
    /\ res' = NoResult
    /\ UNCHANGED <<data, data0, updatePromise, head, jobpc, jobSnap, jobLoaded,
                   jobPayload, failedCalls>>

addSync(cache, server, ref) ==
    IF cache.loaded
    THEN Cache(WithoutHandle(cache.list, server.handle) \o <<server>>, ref)
    ELSE cache

removeSync(cache, handle, ref) ==
    IF cache.loaded
    THEN Cache(WithoutHandle(cache.list, handle), ref)
    ELSE cache

add(server) ==
    /\ servers' = addSync(servers, server, NewRef)
    /\ Enqueue(Call("add", server, server.handle))

remove(handle) ==
    /\ servers' = removeSync(servers, handle, NewRef)
    /\ Enqueue(Call("remove", NoServer, handle))

clear ==
    /\ servers' = Cache(<<>>, NewRef)
    /\ Enqueue(Call("clear", NoServer, 0))

\* Mutation: a settled callback lets every callback chained behind it
\* count as run.
SettleSkipping(settled) ==
    /\ outcome' = [outcome EXCEPT ![head] = catchNoop(settled)]
    /\ updatePromise' = catchNoop(settled)
    /\ failedCalls' = IF settled = "rejected" THEN failedCalls \cup {head}
                      ELSE failedCalls
    /\ head' = Len(calls) + 1
    /\ jobpc' = "idle"

\* The queued callback settles: its promise, after .catch(noop), settles
\* the call and lets the next callback run.
Settle(settled) ==
    /\ outcome' = [outcome EXCEPT ![head] = catchNoop(settled)]
    /\ updatePromise' = catchNoop(settled)
    /\ failedCalls' = IF settled = "rejected" THEN failedCalls \cup {head}
                      ELSE failedCalls
    /\ head' = head + 1
    /\ jobpc' = "idle"

\* The list the callback of add/remove computes from what getServers(true)
\* returned.
JobList(call, loaded) ==
    IF call.op = "add" THEN loaded \o <<call.server>>
    ELSE WithoutHandle(loaded, call.handle)

\* updatePromise.then(callback): the callback of the call at the head runs
\* once the promise chained before it has settled; a rejected promise
\* skips the callback.  clear's callback assigns [] and calls store; the
\* other two call getServers(true).
StartJob ==
    /\ head <= Len(calls)
    /\ jobpc = "idle"
    /\ LET c == calls[head]
       IN  IF updatePromise = "rejected"
           THEN /\ Settle("rejected")
                /\ UNCHANGED <<servers, jobSnap, jobLoaded, jobPayload>>
           ELSE /\ UNCHANGED <<outcome, updatePromise, head, failedCalls>>
                /\ IF c.op = "clear"
                   THEN /\ servers' = Cache(<<>>, NewRef)
                        /\ jobPayload' = PayloadMissing
                        /\ jobpc' = "store"
                        /\ UNCHANGED <<jobSnap, jobLoaded>>
                   ELSE IF getServersFromCache(servers, TRUE)
                   THEN /\ jobLoaded' = servers.list
                        /\ jobpc' = "loaded"
                        /\ UNCHANGED <<servers, jobSnap, jobPayload>>
                   ELSE /\ jobSnap' = data
                        /\ jobpc' = "retrieve"
                        /\ UNCHANGED <<servers, jobLoaded, jobPayload>>
    /\ UNCHANGED <<data, data0, calls, rd, res>>
    /\ UNCHANGED <<flowVars, kernelVars>>

\* The retrieve of the callback's getServers(true) resolves.
JobRetrieved ==
    /\ jobpc = "retrieve"
    /\ LET r == getServersLoad(jobSnap)
       IN  IF r.threw
           THEN /\ Settle("rejected")
                /\ UNCHANGED <<servers, jobLoaded>>
           ELSE /\ servers' = IF r.cached THEN Cache(r.list, NewRef)
                              ELSE servers
                /\ jobLoaded' = r.list
                /\ jobpc' = "loaded"
                /\ UNCHANGED <<outcome, updatePromise, head, failedCalls>>
    /\ UNCHANGED <<data, data0, calls, jobSnap, jobPayload, rd, res>>
    /\ UNCHANGED <<flowVars, kernelVars>>

\* The retrieve rejects: getServers(true) rejects, and so does the callback.
JobRetrieveFailed ==
    /\ jobpc = "retrieve"
    /\ Settle("rejected")
    /\ UNCHANGED <<data, data0, servers, calls, jobSnap, jobLoaded, jobPayload,
                   rd, res>>
    /\ UNCHANGED <<flowVars, kernelVars>>

\* The callback goes on after `await this.getServers(true)`: it assigns
\* this.servers and calls store.
JobContinue ==
    /\ jobpc = "loaded"
    /\ LET list == JobList(calls[head], jobLoaded)
       IN  /\ servers' = Cache(list, NewRef)
           /\ jobPayload' = JSONstringify(serverToStorageFormat(list))
    /\ jobpc' = "store"
    /\ UNCHANGED <<data, data0, calls, outcome, updatePromise, head, jobSnap,
                   jobLoaded, failedCalls, rd, res>>
    /\ UNCHANGED <<flowVars, kernelVars>>

\* The store call resolves: the payload is in storage.
JobStored ==
    /\ jobpc = "store"
    /\ data' = jobPayload
    /\ Settle("resolved")
    /\ UNCHANGED <<data0, servers, calls, jobSnap, jobLoaded, jobPayload, rd, res>>
    /\ UNCHANGED <<flowVars, kernelVars>>

\* The store call rejects: nothing is written.
JobStoreFailed ==
    /\ jobpc = "store"
    /\ Settle("rejected")
    /\ UNCHANGED <<data, data0, servers, calls, jobSnap, jobLoaded, jobPayload,
                   rd, res>>
    /\ UNCHANGED <<flowVars, kernelVars>>

\* ------------------------------------------------- getServers(false)
\* An outside caller calls getServers(false): the cache is returned at
\* once if there is one, else retrieve is called.
getServers ==
    /\ rd.pc = "idle"
    /\ IF getServersFromCache(servers, FALSE)
       THEN /\ res' = Result(servers.list, servers.ref, FALSE, FALSE)
            /\ rd' = rd
       ELSE /\ rd' = [overlapped |-> FALSE, pc |-> "retrieving", snap |-> data]
            /\ res' = res
    /\ UNCHANGED <<data, data0, servers, calls, outcome, updatePromise, head,
                   jobpc, jobSnap, jobLoaded, jobPayload, failedCalls>>

\* Its retrieve resolves: the rest of getServers runs.
getServersRetrieved ==
    /\ rd.pc = "retrieving"
    /\ LET r == getServersLoad(rd.snap)
       IN  IF r.threw
           THEN /\ res' = Thrown(rd.overlapped)
                /\ servers' = servers
           ELSE /\ servers' = IF r.cached THEN Cache(r.list, NewRef) ELSE servers
                /\ res' = Result(r.list, NewRef, TRUE, rd.overlapped)
    /\ rd' = RdIdle
    /\ UNCHANGED <<data, data0, calls, outcome, updatePromise, head, jobpc,
                   jobSnap, jobLoaded, jobPayload, failedCalls>>
    /\ UNCHANGED <<flowVars, kernelVars>>

\* Its retrieve rejects: getServers rejects, nothing is assigned.
getServersRetrieveFailed ==
    /\ rd.pc = "retrieving"
    /\ rd' = RdIdle
    /\ UNCHANGED <<data, data0, servers, calls, outcome, updatePromise, head,
                   jobpc, jobSnap, jobLoaded, jobPayload, failedCalls, res>>
    /\ UNCHANGED <<flowVars, kernelVars>>

\* Callers other than the capture workflow.
StoreCalls ==
    \/ \E server \in ServerInputs : add(server) /\ UNCHANGED <<flowVars, kernelVars>>
    \/ \E handle \in Handles : remove(handle) /\ UNCHANGED <<flowVars, kernelVars>>
    \/ clear /\ UNCHANGED <<flowVars, kernelVars>>

StoreSteps ==
    \/ StartJob
    \/ JobRetrieved
    \/ JobRetrieveFailed
    \/ JobContinue
    \/ JobStored
    \/ JobStoreFailed

Readers ==
    \/ getServers /\ UNCHANGED <<flowVars, kernelVars>>
    \/ getServersRetrieved
    \/ getServersRetrieveFailed

\* ------------------------------------------------ the capture workflow
\* UserJupyterServerUriInput.parseUserUriAndGetValidationError,
\* getBaseJupyterUrl, SecureConnectionValidator and
\* UserJupyterServerUrlProvider.captureRemoteJupyterUrl.

\* '' (no url)
EmptyUrl == MkUri(FALSE, "", "", <<>>, "none", "")

\* value.replace(/\/(lab|tree)(\??)$/, ''): a last path segment lab or
\* tree, with nothing or a bare "?" after it, is cut off together with
\* its slash.  In a string without a path the pattern matches the host
\* lab or tree with the second slash of "//"; what is left, "http:/", is
\* a string `new URL` throws on.
StripLabTree(uri) ==
    IF ~uri.wellFormed \/ uri.query \notin {"none", "bare"} THEN uri
    ELSE IF uri.path # <<>>
    THEN IF uri.path[Len(uri.path)] \in {"lab", "tree"}
         THEN [uri EXCEPT !.path = SubSeq(uri.path, 1, Len(uri.path) - 1),
                          !.query = "none",
                          !.slash = Len(uri.path) > 1]
         ELSE uri
    ELSE IF ~uri.slash /\ uri.host \in {"lab", "tree"}
    THEN [uri EXCEPT !.host = "", !.query = "none", !.wellFormed = FALSE]
    ELSE uri

\* getBaseJupyterUrl(url, requestCreator): undefined (ok = FALSE) or a base
\* url.  redirect is what the fetch gives: "none" (no Location header with
\* 'login?', or the fetch throws) or "login" (Location is the login page
\* at the root of the server).
getBaseJupyterUrl(uri, redirect) ==
    LET parsed == parseUri(uri, "")
    IN  IF ~parsed.ok /\ ~uri.wellFormed
        THEN [ok |-> FALSE, baseUrl |-> NoBaseUrl]
        ELSE IF parsed.ok /\ parsed.baseUrl.path = <<>>
        THEN [ok |-> TRUE, baseUrl |-> parsed.baseUrl]
        ELSE IF ~parsed.ok /\ uri.path = <<>>
        THEN [ok |-> TRUE,
              baseUrl |-> [scheme |-> uri.scheme, host |-> uri.host,
                           path |-> <<>>, hasPath |-> TRUE]]
        ELSE IF redirect = "login"
        THEN [ok |-> TRUE,
              baseUrl |-> [scheme |-> uri.scheme, host |-> uri.host,
                           path |-> <<>>, hasPath |-> TRUE]]
        ELSE [ok |-> FALSE, baseUrl |-> NoBaseUrl]

\* Validation messages.  text is the error text a connection-failure
\* message embeds.
Message(kind, text) == [kind |-> kind, text |-> text]
NoMessage == Message("none", "")

\* parseUserUriAndGetValidationError(value)
parseUserUriAndGetValidationError(value, redirect) ==
    LET uri == StripLabTree(value)
        jupyterServerUri == parseUri(uri, "")
        base == getBaseJupyterUrl(uri, redirect)
    IN  IF ~jupyterServerUri.ok
        THEN [url |-> EmptyUrl,
              jupyterServerUri |-> NoServerInfo,
              validationError |-> Message("invalidUri", "")]
        ELSE IF uri.scheme \notin {"http", "https"}
        THEN [url |-> EmptyUrl,
              jupyterServerUri |-> NoServerInfo,
              validationError |-> Message("mustBeHttpOrHttps", "")]
        ELSE [url |-> uri,
              jupyterServerUri |->
                  [jupyterServerUri EXCEPT
                      !.baseUrl = IF base.ok THEN base.baseUrl ELSE @],
              validationError |-> NoMessage]

\* What rejects a promise of the workflow: the control signals
\* (CancellationError, InputFlowAction.back, InputFlowAction.cancel) and
\* the errors of the password negotiation and of the connection probe.
Err(type, message) == [type |-> type, message |-> message]
IsControl(err) == err.type \in {"CancellationError", "back", "cancel"}

\* String.toLowerCase, on the messages the model uses.
toLowerCase(text) ==
    IF text \in {"Failed to fetch", "FAILED TO FETCH"} THEN "failed to fetch"
    ELSE IF text = "ECONNREFUSED" THEN "econnrefused"
    ELSE text

\* (err.message || '').toLowerCase() === 'Failed to fetch'.toLowerCase()
IsFailedToFetch(err) == toLowerCase(err.message) = toLowerCase("Failed to fetch")

\* remoteJupyterConnectionFailedWithoutServerWithError(err.message)
ConnectionFailed(err) == Message("connectionFailed", err.message)

NoProbe == [ok |-> FALSE, handle |-> 0, serverUri |-> NoServerInfo]

\* How an awaited call of the workflow settled: at is the await ("seed",
\* "url", "hub", "password", "insecure", "verify", "name", "add"), what is
\* the value it resolved with or the type of what it rejected with.
Event(at, what) == [at |-> at, what |-> what]
NoEvent == Event("none", "none")

\* The workflow's local variables; pc is the await it is suspended at
\* ("idle" before the first call, "done" once it returned).  probed and
\* named record what the collaborators were handed in the current loop
\* iteration: the handle and descriptor of a successful validateRemoteUri,
\* and whether getDisplayName resolved.  shownError is the block-scoped
\* errorMessage: the message handed to the url prompt or to the password
\* negotiation that is awaited.  urlShown is whether getUrlFromUser was
\* called in this run, last is how the await before the current one
\* settled.  reported is what getPasswordConnectionInfo resolved with for
\* the url of the workflow: "none" until it resolves for that url, then
\* "required" or "notRequired"; insecureShown is whether the quick pick of
\* promptToUseInsecureConnections was shown for that url; negotiated is
\* the handle that getPasswordConnectionInfo call was given (0: none).
FlowIdle ==
    [url |-> EmptyUrl,
     handle |-> 0,
     pc |-> "idle",
     jupyterServerUri |-> [NoServerInfo EXCEPT !.ok = TRUE],
     validationErrorMessage |-> NoMessage,
     requiresPassword |-> FALSE,
     isInsecureConnection |-> FALSE,
     nextStep |-> "Get Url",
     previousStep |-> "Get Url",
     initialUrl |-> EmptyUrl,
     initialUrlWasValid |-> FALSE,
     failedUrlPasswordCapture |-> FALSE,
     callIdx |-> 0,
     result |-> "none",
     probed |-> NoProbe,
     named |-> FALSE,
     shownError |-> NoMessage,
     urlShown |-> FALSE,
     last |-> NoEvent,
     reported |-> "none",
     insecureShown |-> FALSE,
     negotiated |-> 0]

\* The workflow whose await `at` has just settled with `what`.
After(w, at, what) == [w EXCEPT !.last = Event(at, what)]

\* return <value>; the finally block disposes the prompts and the locals
\* are gone.  The argument of the call and how the last await settled
\* stay on record.
Return(w, value) ==
    [FlowIdle EXCEPT !.pc = "done", !.result = value,
                     !.initialUrl = w.initialUrl, !.last = w.last]

\* The workflow at `await this.addNewServer(...)`: of its locals only
\* handle is read after it (the display name and the base url go to the
\* name tracker and to telemetry).
AtAddNewServer(w, callIdx) ==
    [FlowIdle EXCEPT !.pc = "adding", !.handle = w.handle, !.callIdx = callIdx,
                     !.initialUrl = w.initialUrl, !.last = w.last]

\* previousStep when the step before is the url step:
\* `initialUrlWasValid && initialUrl ? undefined : 'Get Url'`
BackToUrl(w) ==
    IF w.initialUrlWasValid /\ w.initialUrl # EmptyUrl THEN "none" ELSE "Get Url"

\* Lines 559-580: the checkpoint and the 'Get Display Name' step, up to
\* the await of getDisplayName.
AtGetDisplayName(w, c) ==
    IF c THEN Return(w, "cancel")
    ELSE IF w.nextStep = "Get Display Name"
    THEN [w EXCEPT
            !.previousStep =
                IF w.isInsecureConnection THEN "Check Insecure Connections"
                ELSE IF w.requiresPassword /\ w.jupyterServerUri.token = ""
                THEN "Check Passwords"
                ELSE BackToUrl(w),
            !.pc = "name"]
    ELSE [w EXCEPT !.pc = "loop"]   \* `while (true)` goes round

\* Mutation: a rejected validateRemoteUri is not acted on.
CatchVerifyErrorIgnored(w, err, uuid, c) == AtGetDisplayName(w, c)

\* Lines 477-488: the checkpoint and the 'Verify Connection' step, up to
\* the await of validateRemoteUri.
AtVerifyConnection(w, c) ==
    IF c THEN Return(w, "cancel")
    ELSE IF w.nextStep = "Verify Connection"
    THEN [w EXCEPT !.nextStep = "Get Display Name", !.pc = "verify"]
    ELSE AtGetDisplayName(w, c)

\* promptToUseInsecureConnections, up to its await: TRUE when the quick
\* pick is shown, FALSE when the stored flag answers.
PromptShown(flag) == ~flag

\* Mutation: the token is not looked at.
IsInsecureAnyToken(w) ==
    /\ ~w.requiresPassword
    /\ w.jupyterServerUri.baseUrl.scheme = "http"

\* The test of lines 458-462: no password, no token, plain http.
IsInsecure(w) ==
    /\ ~w.requiresPassword
    /\ w.jupyterServerUri.token = ""
    /\ w.jupyterServerUri.baseUrl.scheme = "http"

\* Lines 443-465: the checkpoint and the 'Check Insecure Connections'
\* step, up to the await of promptToUseInsecureConnections.
AtCheckInsecureConnections(w, c) ==
    IF c THEN Return(w, "cancel")
    ELSE IF w.nextStep = "Check Insecure Connections"
    THEN LET w1 == [w EXCEPT
                      !.nextStep = "Verify Connection",
                      !.previousStep =
                          IF w.requiresPassword /\ w.jupyterServerUri.token = ""
                          THEN "Check Passwords"
                          ELSE BackToUrl(w)]
         IN  IF IsInsecure(w1)
             THEN [w1 EXCEPT !.isInsecureConnection = TRUE,
                             !.insecureShown = @ \/ PromptShown(allowInsecure),
                             !.pc = "insecure"]
             ELSE AtVerifyConnection(w1, c)
    ELSE AtVerifyConnection(w, c)

\* Lines 359-384: the checkpoint and the 'Check Passwords' step, up to the
\* await of isJupyterHub (asked only when there is no token) or of
\* getPasswordConnectionInfo.
AtCheckPasswords(w, c) ==
    IF c THEN Return(w, "cancel")
    ELSE IF w.nextStep = "Check Passwords"
    THEN [w EXCEPT
            !.nextStep = "Check Insecure Connections",
            !.previousStep = BackToUrl(w),
            !.shownError = w.validationErrorMessage,
            !.validationErrorMessage = NoMessage,
            !.pc = IF w.jupyterServerUri.token = "" THEN "hub" ELSE "password"]
    ELSE AtCheckInsecureConnections(w, c)

\* Lines 343-358: the top of the loop, with the handle generateUuid()
\* returned, up to the await of getUrlFromUser.
LoopTop(w, uuid, c) ==
    LET w1 == [w EXCEPT !.handle = uuid, !.probed = NoProbe, !.named = FALSE]
    IN  IF w1.nextStep = "Get Url"
        THEN [w1 EXCEPT
                !.initialUrlWasValid = FALSE,
                !.nextStep = "Check Passwords",
                !.previousStep = "none",
                !.shownError = w.validationErrorMessage,
                !.validationErrorMessage = NoMessage,
                !.urlShown = TRUE,
                !.pc = "url"]
        ELSE AtCheckPasswords(w1, c)

\* Lines 581-596: a control signal reaches the catch of the loop body.
CatchSignal(w, err, uuid, c) ==
    IF err.type \in {"CancellationError", "cancel"} THEN Return(w, "cancel")
    ELSE IF w.previousStep = "none" THEN Return(w, "back")
    ELSE LoopTop([w EXCEPT !.nextStep = w.previousStep], uuid, c)

\* Mutation: 'Failed to fetch' with a token is a failure like any other.
CatchPasswordErrorForgetful(w, err, uuid, c) ==
    LET w1 == [w EXCEPT !.failedUrlPasswordCapture = FALSE]
    IN  IF IsControl(err) THEN CatchSignal(w1, err, uuid, c)
        ELSE IF err.type \in {"selfCert", "expiredCert"}
        THEN AtCheckInsecureConnections(w1, c)
        ELSE LoopTop([w1 EXCEPT !.validationErrorMessage = ConnectionFailed(err),
                                !.nextStep = "Get Url"], uuid, c)

\* Lines 394-438: getPasswordConnectionInfo (or isJupyterHub) rejected.
CatchPasswordError(w, err, uuid, c) ==
    LET w1 == [w EXCEPT !.failedUrlPasswordCapture = FALSE]
    IN  IF IsControl(err) THEN CatchSignal(w1, err, uuid, c)
        ELSE IF err.type \in {"selfCert", "expiredCert"}
        THEN AtCheckInsecureConnections(w1, c)
        ELSE LET w2 == [w1 EXCEPT !.validationErrorMessage = ConnectionFailed(err)]
             IN  IF w2.jupyterServerUri.token # "" /\ IsFailedToFetch(err)
                 THEN AtCheckInsecureConnections(
                          [w2 EXCEPT !.failedUrlPasswordCapture = TRUE], c)
                 ELSE LoopTop([w2 EXCEPT !.nextStep = "Get Url"], uuid, c)

\* Mutation: every failure of the probe is a generic connection failure.
CatchVerifyErrorGeneric(w, err, uuid, c) ==
    IF w.failedUrlPasswordCapture /\ w.validationErrorMessage # NoMessage
    THEN LoopTop([w EXCEPT !.nextStep = "Get Url"], uuid, c)
    ELSE IF IsControl(err) THEN CatchSignal(w, err, uuid, c)
    ELSE LoopTop([w EXCEPT !.validationErrorMessage = ConnectionFailed(err),
                           !.nextStep = "Get Url"], uuid, c)

\* Lines 489-554: validateRemoteUri rejected.
CatchVerifyError(w, err, uuid, c) ==
    IF w.failedUrlPasswordCapture /\ w.validationErrorMessage # NoMessage
    THEN LoopTop([w EXCEPT !.nextStep = "Get Url"], uuid, c)
    ELSE IF IsControl(err) THEN CatchSignal(w, err, uuid, c)
    ELSE IF err.type = "selfCert"
    THEN LoopTop([w EXCEPT !.validationErrorMessage = Message("selfCert", ""),
                           !.nextStep = "Get Url"], uuid, c)
    ELSE IF err.type = "expiredCert"
    THEN LoopTop([w EXCEPT !.validationErrorMessage = Message("expiredCert", ""),
                           !.nextStep = "Get Url"], uuid, c)
    ELSE IF w.requiresPassword /\ w.jupyterServerUri.token = ""
    THEN LoopTop([w EXCEPT !.validationErrorMessage = Message("passwordFailure", ""),
                           !.nextStep = "Check Passwords"], uuid, c)
    ELSE LoopTop([w EXCEPT !.validationErrorMessage = ConnectionFailed(err),
                           !.nextStep = "Get Url"], uuid, c)

\* The first handle generateUuid returns; every call returns a handle
\* that is not stored and is not the one of the iteration before.
FirstUuid == 101

UsedHandles ==
    HandlesOf(servers.list) \cup HandlesOf(data.items) \cup HandlesOf(calls)
    \cup {wf.handle}

generateUuid ==
    CHOOSE n \in FirstUuid..(FirstUuid + MaxCalls + 1) :
        /\ n \notin UsedHandles
        /\ \A m \in FirstUuid..(n - 1) : m \in UsedHandles

\* What the user enters and what the collaborators answer.
UriC == MkUri(TRUE, "http", "localhost", <<>>, "none", "")
UriFtp == MkUri(TRUE, "ftp", "example.com", <<>>, "none", "")
SeedInputs == {EmptyUrl, UriC, UriFtp}
UrlInputs == {UriA, UriB, UriC}
Redirects == {"none", "login"}
Signals == {Err("back", ""), Err("cancel", "")}
Errors ==
    Signals \cup
    { Err("CancellationError", ""), Err("selfCert", ""), Err("expiredCert", ""),
      Err("error", "Failed to fetch"), Err("error", "ECONNREFUSED") }
PasswordResults ==
    { [requiresPassword |-> FALSE, requestHeaders |-> "none"],
      [requiresPassword |-> TRUE, requestHeaders |-> "xsrf"] }
DisplayNames == {"", "my server"}

\* A JupyterServer { id, label } handed to the caller.
NoJupyterServer == [id |-> 0, label |-> ""]
JupyterServer(s) == [id |-> s.handle, label |-> s.serverInfo.displayName]

\* A provider call: which method, the await it is at, the id it was
\* given (the handle the workflow returned, for handleCommand), the
\* payload its retrieve returns, the store call it awaits, and what it
\* returned: result is "server", "undefined", "list", "void", "info",
\* "CancellationError" or "Error", with the server, the list or the
\* connection information.  negotiations are the handles its
\* getPasswordConnectionInfo calls were given, produced the headers the
\* last of them resolved with ("rejected" if it rejected), removed the
\* ids whose removeJupyterServer has resolved in this process and that
\* were not added again.
OpIdle ==
    [server |-> NoJupyterServer, pc |-> "idle", snap |-> PayloadMissing,
     callIdx |-> 0, result |-> "none", name |-> "none", id |-> 0,
     listed |-> <<>>, info |-> NoServerInfo, negotiations |-> <<>>,
     produced |-> "none", removed |-> {}]

\* The second workflow: the await it is at, the handle its
\* generateUuid() returned, the add it awaits and what it returned.
OtherIdle == [handle |-> 0, pc |-> "idle", callIdx |-> 0, result |-> "none"]

FlowInit ==
    /\ wf = FlowIdle
    /\ cancelled = FALSE
    /\ allowInsecure \in BOOLEAN
    /\ consented = FALSE
    /\ initialized = FALSE
    /\ fired = 0
    /\ runs = 0
    /\ api = OpIdle
    /\ other = OtherIdle

\* The provider before any command, in a process that uses the store only.
FlowUnused ==
    /\ wf = FlowIdle
    /\ cancelled = FALSE
    /\ allowInsecure = FALSE
    /\ consented = FALSE
    /\ initialized = FALSE
    /\ fired = 0
    /\ runs = 0
    /\ api = OpIdle
    /\ other = OtherIdle

\* The workflow when the awaited url prompt or password negotiation has
\* settled: the block of errorMessage is left.
Resumed == [wf EXCEPT !.shownError = NoMessage]

\* A step of the workflow that calls nothing of the store.
Goto(w) ==
    /\ wf' = w
    /\ UNCHANGED <<cancelled, allowInsecure, consented, initialized, fired, runs, api, other, kernelVars>>
    /\ UNCHANGED storeVars

\* activate(): initializeServers calls getServers(false), once.
activate ==
    /\ ~initialized
    /\ initialized' = TRUE
    /\ getServers
    /\ UNCHANGED <<wf, cancelled, allowInsecure, consented, fired, runs, api, other, kernelVars>>

\* handleCommand calls captureRemoteJupyterUrl(token, url) with a new
\* token; the provider is activated, so that initializeServers returns
\* the promise it has.
StartFlow(initialUrl) ==
    /\ initialized
    /\ wf.pc \in {"idle", "done"}
    /\ api.pc \in {"idle", "done"}
    /\ runs < MaxRuns
    /\ runs' = runs + 1
    /\ LET w == [FlowIdle EXCEPT !.initialUrl = initialUrl, !.url = initialUrl]
       IN  wf' = IF initialUrl # EmptyUrl THEN [w EXCEPT !.pc = "seed"]
                 ELSE LoopTop(w, generateUuid, FALSE)
    /\ cancelled' = FALSE
    /\ api' = [OpIdle EXCEPT !.name = "handleCommand", !.pc = "capturing",
                             !.removed = api.removed]
    /\ UNCHANGED <<allowInsecure, consented, initialized, fired, other, kernelVars>>
    /\ UNCHANGED storeVars

\* Lines 329-339: the validation of the seed url resolves.
SeedValidated(redirect) ==
    /\ wf.pc = "seed"
    /\ LET r == parseUserUriAndGetValidationError(wf.initialUrl, redirect)
       IN  Goto(LoopTop(
               IF r.validationError # NoMessage
               THEN [After(wf, "seed", "invalid") EXCEPT
                        !.validationErrorMessage = r.validationError,
                        !.nextStep = "Get Url"]
               ELSE [After(wf, "seed", "valid") EXCEPT
                        !.initialUrlWasValid = TRUE,
                        !.jupyterServerUri = r.jupyterServerUri,
                        !.nextStep = "Check Passwords"],
               generateUuid, cancelled))

\* getUrlFromUser resolves: the user accepted a value that validates.
UrlAccepted(value, redirect) ==
    /\ wf.pc = "url"
    /\ LET r == parseUserUriAndGetValidationError(value, redirect)
       IN  /\ r.validationError = NoMessage
           /\ Goto(AtCheckPasswords(
                  [After(Resumed, "url", "accepted") EXCEPT
                      !.jupyterServerUri = r.jupyterServerUri,
                      !.url = r.url,
                      !.reported = "none",
                      !.insecureShown = FALSE,
                      !.negotiated = 0], cancelled))

\* getUrlFromUser rejects: Back, or the input box was hidden.
UrlRejected(err) ==
    /\ wf.pc = "url"
    /\ Goto(CatchSignal(After(Resumed, "url", err.type), err, generateUuid,
                        cancelled))

\* isJupyterHub resolves and its answer is not looked at.
HubAnsweredIgnored(isHub) ==
    /\ wf.pc = "hub"
    /\ Goto([After(wf, "hub", IF isHub THEN "true" ELSE "false")
               EXCEPT !.pc = "password"])

\* isJupyterHub resolves; for a hub recommendInstallingJupyterHubExtension
\* throws a CancellationError inside the try of the password step.
HubAnswered(isHub) ==
    /\ wf.pc = "hub"
    /\ Goto(IF isHub
            THEN CatchPasswordError(After(Resumed, "hub", "true"),
                                    Err("CancellationError", ""),
                                    generateUuid, cancelled)
            ELSE [After(wf, "hub", "false") EXCEPT !.pc = "password"])

HubRejected(err) ==
    /\ wf.pc = "hub"
    /\ Goto(CatchPasswordError(After(Resumed, "hub", err.type), err,
                               generateUuid, cancelled))

\* getPasswordConnectionInfo resolves.
PasswordResolved(result) ==
    /\ wf.pc = "password"
    /\ Goto(AtCheckInsecureConnections(
           [After(Resumed, "password", "resolved") EXCEPT
               !.requiresPassword = result.requiresPassword,
               !.jupyterServerUri.authorizationHeader = result.requestHeaders,
               !.failedUrlPasswordCapture = FALSE,
               !.reported = IF result.requiresPassword THEN "required"
                            ELSE "notRequired",
               !.negotiated = wf.handle], cancelled))

PasswordRejected(err) ==
    /\ wf.pc = "password"
    /\ Goto(CatchPasswordError(After(Resumed, "password", err.type), err,
                               generateUuid, cancelled))

\* promptToUseInsecureConnections resolves: with true when the flag is
\* set, else with what the user picked (Yes is true).
InsecureResolved(proceed) ==
    /\ wf.pc = "insecure"
    /\ ~PromptShown(allowInsecure) => proceed
    /\ wf' = IF proceed
             THEN AtVerifyConnection(After(wf, "insecure", "true"), cancelled)
             ELSE Return(After(wf, "insecure", "false"), "cancel")
    /\ consented' = (consented \/ (PromptShown(allowInsecure) /\ proceed))
    /\ UNCHANGED <<cancelled, allowInsecure, initialized, fired, runs, api, other, kernelVars>>
    /\ UNCHANGED storeVars

\* The quick pick rejects: Back, or it was hidden.
InsecureRejected(err) ==
    /\ wf.pc = "insecure"
    /\ PromptShown(allowInsecure)
    /\ Goto(CatchSignal(After(wf, "insecure", err.type), err, generateUuid,
                        cancelled))

\* validateRemoteUri resolves.
VerifyResolved ==
    /\ wf.pc = "verify"
    /\ Goto(AtGetDisplayName(
           [After(wf, "verify", "resolved") EXCEPT
               !.probed = [ok |-> TRUE, handle |-> wf.handle,
                           serverUri |-> wf.jupyterServerUri]],
           cancelled))

VerifyRejected(err) ==
    /\ wf.pc = "verify"
    /\ Goto(CatchVerifyError(After(wf, "verify", err.type), err, generateUuid,
                             cancelled))

\* `input.value.trim() || defaultValue`, the default being
\* `jupyterServerUri.displayName || new URL(baseUrl).hostname`
AcceptedName(serverUri, value) ==
    IF value # "" THEN value
    ELSE IF serverUri.displayName # "" THEN serverUri.displayName
    ELSE serverUri.baseUrl.host

\* Mutation: the token is not tested after the loop.
NameAcceptedUnchecked(value) ==
    /\ wf.pc = "name"
    /\ LET w == [After(wf, "name", "accepted") EXCEPT
                   !.jupyterServerUri.displayName =
                       AcceptedName(wf.jupyterServerUri, value),
                   !.named = TRUE]
       IN  /\ add(MkServer(w.handle, w.url, w.jupyterServerUri))
           /\ wf' = AtAddNewServer(w, Len(calls) + 1)
    /\ UNCHANGED <<cancelled, allowInsecure, consented, initialized, fired, runs, api, other, kernelVars>>

\* getDisplayName resolves: break, the checkpoint of line 598, and the
\* call of addNewServer, up to its await of NewStorage.add.
NameAccepted(value) ==
    /\ wf.pc = "name"
    /\ LET w == [After(wf, "name", "accepted") EXCEPT
                   !.jupyterServerUri.displayName =
                       AcceptedName(wf.jupyterServerUri, value),
                   !.named = TRUE]
       IN  IF cancelled
           THEN /\ wf' = Return(w, "cancel")
                /\ UNCHANGED storeVars
           ELSE /\ add(MkServer(w.handle, w.url, w.jupyterServerUri))
                /\ wf' = AtAddNewServer(w, Len(calls) + 1)
    /\ UNCHANGED <<cancelled, allowInsecure, consented, initialized, fired, runs, api, other, kernelVars>>

NameRejected(err) ==
    /\ wf.pc = "name"
    /\ Goto(CatchSignal(After(wf, "name", err.type), err, generateUuid,
                        cancelled))

\* NewStorage.add settled: addNewServer fires the event and the workflow
\* returns the handle; a rejection leaves the workflow as an error.
AddSettled ==
    /\ wf.pc = "adding"
    /\ outcome[wf.callIdx] # "pending"
    /\ IF outcome[wf.callIdx] = "resolved"
       THEN /\ fired' = fired + 1
            /\ wf' = [Return(After(wf, "add", "resolved"), "handle")
                         EXCEPT !.handle = wf.handle]
       ELSE /\ fired' = fired
            /\ wf' = Return(After(wf, "add", "rejected"), "error")
    /\ UNCHANGED <<cancelled, allowInsecure, consented, initialized, runs, api, other, kernelVars>>
    /\ UNCHANGED storeVars

\* The token of the running command is cancelled.
CancelToken ==
    /\ wf.pc \notin {"idle", "done"}
    /\ ~cancelled
    /\ cancelled' = TRUE
    /\ UNCHANGED <<wf, allowInsecure, consented, initialized, fired, runs, api, other, kernelVars>>
    /\ UNCHANGED storeVars

\* ------------------------------------------------------- provider calls
\* servers.map(...) of provideJupyterServers and servers.find(...).
RECURSIVE JupyterServers(_)
JupyterServers(list) ==
    IF list = <<>> THEN <<>>
    ELSE <<JupyterServer(Head(list))>> \o JupyterServers(Tail(list))

Has(list, handle) == \E i \in 1..Len(list) : list[i].handle = handle
Find(list, handle) ==
    list[CHOOSE i \in 1..Len(list) :
            /\ list[i].handle = handle
            /\ \A k \in 1..(i - 1) : list[k].handle # handle]

\* The call returns or throws.
OpReturn(o, result) ==
    [OpIdle EXCEPT !.name = o.name, !.pc = "done", !.id = o.id,
                   !.result = result, !.negotiations = o.negotiations,
                   !.removed = o.removed]

\* `passwordResult.requestHeaders || serverInfo.authorizationHeader`
HeadersOr(requestHeaders, authorizationHeader) ==
    IF requestHeaders # "none" THEN requestHeaders ELSE authorizationHeader

\* The code that runs once getServers(false) has returned list to
\* handleCommand (lines 200-204, 209-210), provideJupyterServers
\* (238-243) or getServerUri (632-646, up to the await of
\* getPasswordConnectionInfo).
OpListed(o, list) ==
    IF o.name = "handleCommand"
    THEN IF Has(list, o.id)
         THEN [OpReturn(o, "server") EXCEPT
                  !.server = JupyterServer(Find(list, o.id)),
                  !.listed = JupyterServers(list)]
         ELSE [OpReturn(o, "undefined") EXCEPT !.listed = JupyterServers(list)]
    ELSE IF o.name = "provideJupyterServers"
    THEN [OpReturn(o, "list") EXCEPT !.listed = JupyterServers(list)]
    ELSE IF Has(list, o.id)
         THEN [o EXCEPT !.pc = "negotiating",
                        !.listed = JupyterServers(list),
                        !.info = Find(list, o.id).serverInfo,
                        !.negotiations = Append(o.negotiations, o.id)]
         ELSE [OpReturn(o, "Error") EXCEPT !.listed = JupyterServers(list)]

\* The call of getServers(false): the cached list, or a retrieve.
OpGetServers(o) ==
    IF getServersFromCache(servers, FALSE)
    THEN OpListed(o, servers.list)
    ELSE [o EXCEPT !.pc = "retrieving", !.snap = data]

OpFrame ==
    UNCHANGED <<wf, cancelled, allowInsecure, consented, initialized, other, kernelVars>>
StoreFrame ==
    UNCHANGED <<data, data0, calls, outcome, updatePromise, head, jobpc,
                jobSnap, jobLoaded, jobPayload, failedCalls, rd, res>>

\* Lines 192-198, 205-210: captureRemoteJupyterUrl has settled.  With a
\* handle provideJupyterServers is called, which awaits
\* initializeServers.
handleCommandResumed ==
    /\ api.name = "handleCommand"
    /\ api.pc = "capturing"
    /\ wf.pc = "done"
    /\ api' = IF wf.result = "handle"
              THEN [api EXCEPT !.pc = "initializing", !.id = wf.handle]
              ELSE IF wf.result = "cancel"
              THEN OpReturn(api, "CancellationError")
              ELSE OpReturn(api, "undefined")
    /\ UNCHANGED <<fired, runs>>
    /\ OpFrame
    /\ UNCHANGED storeVars

\* provideJupyterServers(token) is called.
provideJupyterServers ==
    /\ initialized
    /\ api.pc \in {"idle", "done"}
    /\ runs < MaxOps
    /\ runs' = runs + 1
    /\ api' = [OpIdle EXCEPT !.name = "provideJupyterServers",
                             !.pc = "initializing", !.removed = api.removed]
    /\ UNCHANGED fired
    /\ OpFrame
    /\ UNCHANGED storeVars

\* removeJupyterServer(server) is called.
removeJupyterServer(id) ==
    /\ initialized
    /\ api.pc \in {"idle", "done"}
    /\ runs < MaxOps
    /\ runs' = runs + 1
    /\ api' = [OpIdle EXCEPT !.name = "removeJupyterServer",
                             !.pc = "initializing", !.id = id,
                             !.removed = api.removed]
    /\ UNCHANGED fired
    /\ OpFrame
    /\ UNCHANGED storeVars

\* resolveJupyterServer(server, token) is called: getServerUri calls
\* getServers(false).
resolveJupyterServer(id) ==
    /\ initialized
    /\ api.pc \in {"idle", "done"}
    /\ runs < MaxOps
    /\ runs' = runs + 1
    /\ api' = OpGetServers([OpIdle EXCEPT !.name = "resolveJupyterServer",
                                          !.id = id,
                                          !.removed = api.removed])
    /\ UNCHANGED fired
    /\ OpFrame
    /\ UNCHANGED storeVars

\* Lines 236-237: the await of initializeServers is over and
\* getServers(false) is called.
InitializeServersResolved ==
    /\ api.pc = "initializing"
    /\ api.name \in {"handleCommand", "provideJupyterServers"}
    /\ api' = OpGetServers(api)
    /\ UNCHANGED <<fired, runs>>
    /\ OpFrame
    /\ UNCHANGED storeVars

\* Lines 246-247: the await of initializeServers is over and
\* newStorage.remove(server.id) is called.
RemoveInitialized ==
    /\ api.pc = "initializing"
    /\ api.name = "removeJupyterServer"
    /\ remove(api.id)
    /\ api' = [api EXCEPT !.pc = "removing", !.callIdx = Len(calls) + 1]
    /\ UNCHANGED <<fired, runs>>
    /\ OpFrame

\* Line 248: the remove has settled.
RemoveSettled ==
    /\ api.pc = "removing"
    /\ outcome[api.callIdx] # "pending"
    /\ IF outcome[api.callIdx] = "resolved"
       THEN /\ fired' = fired + 1
            /\ api' = [OpReturn(api, "void") EXCEPT
                          !.removed = api.removed \cup {api.id}]
       ELSE /\ fired' = fired
            /\ api' = OpReturn(api, "Error")
    /\ UNCHANGED runs
    /\ OpFrame
    /\ UNCHANGED storeVars

\* Lines 601-605, 626-627: a workflow has the server and calls
\* addNewServer, which calls newStorage.add.
addNewServer(server) ==
    /\ initialized
    /\ api.pc \in {"idle", "done"}
    /\ runs < MaxOps
    /\ runs' = runs + 1
    /\ add(server)
    /\ api' = [OpIdle EXCEPT !.name = "addNewServer", !.pc = "adding",
                             !.id = server.handle,
                             !.callIdx = Len(calls) + 1,
                             !.removed = api.removed \ {server.handle}]
    /\ UNCHANGED fired
    /\ OpFrame

\* Line 628: the add has settled.
AddNewServerSettled ==
    /\ api.pc = "adding"
    /\ outcome[api.callIdx] # "pending"
    /\ IF outcome[api.callIdx] = "resolved"
       THEN /\ fired' = fired + 1
            /\ api' = OpReturn(api, "void")
       ELSE /\ fired' = fired
            /\ api' = OpReturn(api, "Error")
    /\ UNCHANGED runs
    /\ OpFrame
    /\ UNCHANGED storeVars

\* The retrieve of the call's getServers(false) resolves.
OpRetrieved ==
    /\ api.pc = "retrieving"
    /\ LET r == getServersLoad(api.snap)
       IN  /\ servers' = IF r.cached THEN Cache(r.list, NewRef) ELSE servers
           /\ api' = OpListed(api, r.list)
    /\ UNCHANGED <<fired, runs>>
    /\ OpFrame
    /\ StoreFrame

\* It rejects: getServers rejects, and with it provideJupyterServers and
\* getServerUri; handleCommand logs the error and returns undefined.
OpRetrieveFailed ==
    /\ api.pc = "retrieving"
    /\ api' = IF api.name = "handleCommand" THEN OpReturn(api, "undefined")
              ELSE OpReturn(api, "Error")
    /\ UNCHANGED <<fired, runs>>
    /\ OpFrame
    /\ UNCHANGED storeVars

\* Lines 646-654, 659: getPasswordConnectionInfo resolves.
OpPasswordResolved(result) ==
    /\ api.pc = "negotiating"
    /\ api' = [OpReturn(api, "info") EXCEPT
                  !.listed = api.listed,
                  !.produced = result.requestHeaders,
                  !.info = [api.info EXCEPT
                               !.authorizationHeader =
                                   HeadersOr(result.requestHeaders,
                                             api.info.authorizationHeader)]]
    /\ UNCHANGED <<fired, runs>>
    /\ OpFrame
    /\ UNCHANGED storeVars

\* Lines 655-659: it rejects; the error is logged.
OpPasswordRejected(err) ==
    /\ api.pc = "negotiating"
    /\ api' = [OpReturn(api, "info") EXCEPT !.listed = api.listed,
                                            !.produced = "rejected",
                                            !.info = api.info]
    /\ UNCHANGED <<fired, runs>>
    /\ OpFrame
    /\ UNCHANGED storeVars

\* The handle of the second workflow.
OtherUuid == 201

\* The server the second workflow has captured, for https://example.com/.
OtherServer == MkServer(OtherUuid, UriB, parseUri(UriB, "my server"))

\* Lines 598-605, 626-627: the second workflow calls addNewServer.
OtherAddNewServer ==
    /\ initialized
    /\ other.pc = "idle"
    /\ add(OtherServer)
    /\ other' = [other EXCEPT !.pc = "adding", !.handle = OtherUuid,
                              !.callIdx = Len(calls) + 1]
    /\ UNCHANGED <<wf, cancelled, allowInsecure, consented, initialized,
                   fired, runs, api, kernelVars>>

\* Lines 628, 616: its add has settled.
OtherAddSettled ==
    /\ other.pc = "adding"
    /\ outcome[other.callIdx] # "pending"
    /\ IF outcome[other.callIdx] = "resolved"
       THEN /\ fired' = fired + 1
            /\ other' = [other EXCEPT !.pc = "done", !.result = "handle"]
       ELSE /\ fired' = fired
            /\ other' = [other EXCEPT !.pc = "done", !.result = "error"]
    /\ UNCHANGED <<wf, cancelled, allowInsecure, consented, initialized,
                   runs, api, kernelVars>>
    /\ UNCHANGED storeVars

\* A command whose prompts and collaborators all resolve, next to a
\* second workflow that persists its server.
PairSteps ==
    \/ activate
    \/ \E initialUrl \in SeedInputs : StartFlow(initialUrl)
    \/ \E redirect \in Redirects : SeedValidated(redirect)
    \/ \E value \in UrlInputs, redirect \in Redirects : UrlAccepted(value, redirect)
    \/ \E isHub \in BOOLEAN : HubAnswered(isHub)
    \/ \E result \in PasswordResults : PasswordResolved(result)
    \/ \E proceed \in BOOLEAN : InsecureResolved(proceed)
    \/ VerifyResolved
    \/ \E value \in DisplayNames : NameAccepted(value)
    \/ AddSettled
    \/ OtherAddNewServer
    \/ OtherAddSettled

\* The rest of handleCommand once the workflow has returned.
CommandSteps ==
    \/ handleCommandResumed
    \/ InitializeServersResolved
    \/ OpRetrieved
    \/ OpRetrieveFailed

\* A server as a workflow hands it to addNewServer: the url
\* http://localhost/ with the headers of a password login.
CapturedServers ==
    { MkServer(2, UriC, [parseUri(UriC, "") EXCEPT
                            !.authorizationHeader = "xsrf"]) }

\* The provider calls other than handleCommand.
ProviderSteps ==
    \/ activate
    \/ \E server \in CapturedServers : addNewServer(server)
    \/ AddNewServerSettled
    \/ provideJupyterServers
    \/ \E id \in Handles : removeJupyterServer(id)
    \/ \E id \in Handles : resolveJupyterServer(id)
    \/ InitializeServersResolved
    \/ RemoveInitialized
    \/ RemoveSettled
    \/ OpRetrieved
    \/ OpRetrieveFailed
    \/ \E result \in PasswordResults : OpPasswordResolved(result)
    \/ \E err \in Errors : OpPasswordRejected(err)

FlowSteps ==
    \/ activate
    \/ \E initialUrl \in SeedInputs : StartFlow(initialUrl)
    \/ \E redirect \in Redirects : SeedValidated(redirect)
    \/ \E value \in UrlInputs, redirect \in Redirects : UrlAccepted(value, redirect)
    \/ \E err \in Signals : UrlRejected(err)
    \/ \E isHub \in BOOLEAN : HubAnswered(isHub)
    \/ \E err \in Errors : HubRejected(err)
    \/ \E result \in PasswordResults : PasswordResolved(result)
    \/ \E err \in Errors : PasswordRejected(err)
    \/ \E proceed \in BOOLEAN : InsecureResolved(proceed)
    \/ \E err \in Signals : InsecureRejected(err)
    \/ VerifyResolved
    \/ \E err \in Errors : VerifyRejected(err)
    \/ \E value \in DisplayNames : NameAccepted(value)
    \/ \E err \in Signals : NameRejected(err)
    \/ AddSettled
    \/ CancelToken

\* ============================================= the kernel of an extension
\* WrappedKernelPerExtension (kernel.ts): the kernel object handed to one
\* extension.  executeCode checks the extension's access and then runs
\* executeCodeInternal, which hands the code to the execution of the
\* kernel and yields its outputs.

MaxExecs == 3       \* executeCode calls on the wrapper
MaxChanges == 2     \* announcements of changed permissions
MaxOutputs == 3     \* outputs one call takes from its executions
MaxDepth == 3       \* executions one call has open at a time
MaxDirect == 1      \* direct calls of executeCodeInternal
MaxUpdates == 2     \* display updates the execution announces

JVSC_EXTENSION_ID == "ms-toolsai.jupyter"
ThirdPartyId == "third.party"
ExtensionIds == {JVSC_EXTENSION_ID, ThirdPartyId}

\* Lines 38-47: the error of a denied access, by its name.
KernelAPIAccessRevoked == "vscode.jupyter.apiAccessRevoked"

\* Lines 209-221: the errors of a kernel that cannot execute.
KernelIsDisposed == "Kernel is disposed"
KernelIsDead == "Kernel is dead or terminating"
KernelNotAvailable ==
    "Kernel connection not available to execute 3rd party code"
RequestFailed == "requestApiAccess failed"

\* What executeCodeInternal reads of the kernel.
KernelStates ==
    [disposed : BOOLEAN, session : BOOLEAN,
     status : {"idle", "dead", "terminating"}]

\* One executeCode call: where it is, the doCheckAccess promise it
\* awaits (0: none), how many changes of permissions had been announced
\* when it was made, the error it threw, whether its code was handed to
\* the execution of the kernel, the outputs it yielded, its table of
\* chat handlers (line 183: empty by default), the executions it has
\* open, what it did with their outputs, the execution events it sent
\* and the listeners it holds.  registered and mimeTypes are the outputs,
\* by their place in the log, that were handed to
\* trackDisplayDataForExtension and whose mime types were added to the
\* set of line 206.  properties are those of lines 194-204 that the
\* listeners write, completed is the flag of line 186 and token is
\* whether the cancellation token of the call was signalled.
NoProperties ==
    [cancelled |-> FALSE, requestSent |-> FALSE,
     requestAcknowledged |-> FALSE, cancelledBeforeRequestSent |-> FALSE,
     cancelledBeforeRequestAcknowledged |-> FALSE]

Exec(pc, promise, changes) ==
    [token |-> FALSE, pc |-> pc, error |-> "none",
     promise |-> promise, changes |-> changes, delegated |-> FALSE,
     outputs |-> 0, handlers |-> {}, depth |-> 0, log |-> <<>>,
     telemetry |-> <<>>, subscriptions |-> {}, registered |-> {},
     mimeTypes |-> {}, properties |-> NoProperties, completed |-> FALSE]

\* Lines 87, 117-147: the wrapper after construction.  accessAllowed is
\* the index of the cached promise in promises, 0 for undefined; a
\* promise is pending, allowed, denied or rejected, and remembers the
\* number of changes announced when it was made.  updates are the
\* display updates the execution of the kernel announced, each with
\* whether _onDidReceiveDisplayUpdate fired for it.
NewWrapper(extensionId) ==
    [handlers |-> 0, extensionId |-> extensionId, accessAllowed |-> 0,
     promises |-> <<>>, execs |-> <<>>, updates |-> <<>>]

NewAccess == [changes |-> 0, requests |-> 0]

KernelInit ==
    /\ wrapper \in {NewWrapper(id) : id \in ExtensionIds}
    /\ access = NewAccess

\* The wrapper in a process that never executes code.
KernelUnused ==
    /\ wrapper = NewWrapper(ThirdPartyId)
    /\ access = NewAccess

KernelFrame == UNCHANGED <<storeVars, flowVars>>

\* Lines 148-155: checkAccess up to its await.  The first-party extension
\* returns at once; otherwise an unset accessAllowed starts doCheckAccess,
\* which calls requestApiAccess, and registers one more change handler.
checkAccess(w) ==
    IF w.extensionId = JVSC_EXTENSION_ID
    THEN [w EXCEPT !.execs =
              Append(@, Exec("internal", 0, access.changes))]
    ELSE IF w.accessAllowed = 0
    THEN [w EXCEPT
              !.promises = Append(@, [changes |-> access.changes,
                                      state |-> "pending"]),
              !.accessAllowed = Len(w.promises) + 1,
              !.handlers = @ + 1,
              !.execs = Append(@, Exec("checking", Len(w.promises) + 1,
                                       access.changes))]
    ELSE [w EXCEPT !.execs =
              Append(@, Exec("checking", w.accessAllowed, access.changes))]

\* Lines 174-175: a caller starts to iterate executeCode.
executeCode ==
    /\ Len(wrapper.execs) < MaxExecs
    /\ wrapper' = checkAccess(wrapper)
    /\ access' = [access EXCEPT !.requests =
                      @ + Len(wrapper'.promises) - Len(wrapper.promises)]
    /\ KernelFrame

\* Lines 164-171: requestApiAccess answered, doCheckAccess returns the
\* answer.
doCheckAccessResumed(p, accessAllowed) ==
    /\ p \in 1..Len(wrapper.promises)
    /\ wrapper.promises[p].state = "pending"
    /\ wrapper' = [wrapper EXCEPT !.promises[p].state =
                       IF accessAllowed THEN "allowed" ELSE "denied"]
    /\ UNCHANGED access
    /\ KernelFrame

\* Line 164: requestApiAccess failed, the promise of doCheckAccess is
\* rejected.
doCheckAccessRejected(p) ==
    /\ p \in 1..Len(wrapper.promises)
    /\ wrapper.promises[p].state = "pending"
    /\ wrapper' = [wrapper EXCEPT !.promises[p].state = "rejected"]
    /\ UNCHANGED access
    /\ KernelFrame

\* checkAccess without its throw.
AccessCheckedIgnored(e, state) == [e EXCEPT !.pc = "internal"]

\* Lines 156-159: what checkAccess does with the settled promise.
AccessChecked(e, state) ==
    CASE state = "allowed" -> [e EXCEPT !.pc = "internal"]
      [] state = "denied" ->
             [e EXCEPT !.pc = "thrown", !.error = KernelAPIAccessRevoked]
      [] OTHER -> [e EXCEPT !.pc = "thrown", !.error = RequestFailed]

\* Lines 156-159, 175-176: the await of checkAccess in call c resumes.
checkAccessResumed(c) ==
    /\ c \in 1..Len(wrapper.execs)
    /\ wrapper.execs[c].pc = "checking"
    /\ wrapper.promises[wrapper.execs[c].promise].state # "pending"
    /\ wrapper' = [wrapper EXCEPT !.execs[c] =
           AccessChecked(@, wrapper.promises[@.promise].state)]
    /\ UNCHANGED access
    /\ KernelFrame

\* Lines 359-382: sendApiExecTelemetry sends one execution event, with
\* the failed property as it is when the event is sent, the mime types
\* collected so far (line 227; none before the first output) and the
\* other properties as the listeners left them.
sendApiExecTelemetry(e, failed) ==
    [e EXCEPT !.telemetry =
         Append(@, [failed |-> failed, mimeTypes |-> e.mimeTypes,
                    properties |-> e.properties])]

\* Lines 241-274: the listeners pushed to disposables.
Subscriptions == {"started", "executionAcknowledged", "onCancellationRequested"}

\* Lines 224-231, 296: dispose(disposables) in the finally block: the
\* listeners are released and the first disposable sends the event;
\* properties.failed is only ever set at lines 210 and 215.
Finally(e) ==
    [sendApiExecTelemetry(e, FALSE) EXCEPT !.subscriptions = {}, !.depth = 0,
                                           !.completed = TRUE]

\* An error that leaves the loop without the finally block.
ThrowPastFinally(e, error) == [e EXCEPT !.pc = "thrown", !.error = error]

\* An error leaves the loop of lines 277-294 through the finally block.
Throw(e, error) == Finally([e EXCEPT !.pc = "thrown", !.error = error])

\* What is written to the log of a call.
Logged(e, ev) == [e EXCEPT !.log = Append(@, <<ev, e.depth>>)]

\* executeCodeInternal without the guards of lines 209-221.
StartedUnguarded(e, kernel) ==
    Logged([e EXCEPT !.pc = "executing", !.delegated = TRUE,
                     !.depth = 1, !.subscriptions = Subscriptions],
           "execute")

\* Lines 209-221, 277: executeCodeInternal up to its first await: it
\* throws for a kernel that cannot execute, and hands the code to
\* kernelExecution.executeCode otherwise.
Started(e, kernel) ==
    IF kernel.disposed
    THEN sendApiExecTelemetry(
             [e EXCEPT !.pc = "thrown", !.error = KernelIsDisposed], TRUE)
    ELSE IF ~kernel.session
    THEN sendApiExecTelemetry(
             [e EXCEPT !.pc = "thrown",
                       !.error = IF kernel.status \in {"dead", "terminating"}
                                 THEN KernelIsDead ELSE KernelNotAvailable],
             TRUE)
    ELSE Logged([e EXCEPT !.pc = "executing", !.delegated = TRUE,
                          !.depth = 1, !.subscriptions = Subscriptions],
                "execute")

executeCodeInternal(c, kernel) ==
    /\ c \in 1..Len(wrapper.execs)
    /\ wrapper.execs[c].pc = "internal"
    /\ wrapper' = [wrapper EXCEPT !.execs[c] = Started(@, kernel)]
    /\ UNCHANGED access
    /\ KernelFrame

\* A caller inside the extension calls executeCodeInternal with a table
\* of chat handlers (lines 181-185); there is no access check on this
\* path.
DirectCall(handlers) ==
    /\ Len(wrapper.execs) < MaxDirect
    /\ wrapper' = [wrapper EXCEPT !.execs =
           Append(@, [Exec("internal", 0, access.changes)
                          EXCEPT !.handlers = handlers])]
    /\ UNCHANGED access
    /\ KernelFrame

\* The outputs call e has taken from its executions so far.
Consumed(e) ==
    Cardinality({i \in 1..Len(e.log) : e.log[i][1] \in {"yield", "chat"}})

\* Call e waits for the next output of its innermost execution: it
\* awaits the execution, or it is suspended at a yield and the consumer
\* asks for the next output.
Consuming(e) == e.pc \in {"executing", "yielded"}

\* Lines 278-279, 332: what the loop that took an output does before it
\* looks for the chat mime type.  The loop of executeCodeInternal (depth
\* 1) calls trackDisplayDataForExtension and adds the mime types; the
\* loop of handleChatOutput adds the mime types.
Received(e) ==
    LET i == Len(e.log) + 1
    IN  [e EXCEPT !.registered = IF e.depth = 1 THEN @ \cup {i} ELSE @,
                  !.mimeTypes = @ \cup {i}]

\* Lines 277-292, 331-345, 176-178: the innermost execution produced an
\* output without the chat mime type, which call c yields.
OutputYielded(c) ==
    /\ c \in 1..Len(wrapper.execs)
    /\ Consuming(wrapper.execs[c])
    /\ Consumed(wrapper.execs[c]) < MaxOutputs
    /\ wrapper' = [wrapper EXCEPT !.execs[c] =
           Logged([Received(@) EXCEPT !.pc = "yielded", !.outputs = @ + 1],
                  "yield")]
    /\ UNCHANGED access
    /\ KernelFrame

\* The properties every object has: handlers[functionId] finds them in a
\* table that does not hold them.
ObjectPrototype == {"toString"}
Functions == {"registered", "unregistered", "toString"}
HandlerTables == {{}, {"registered"}}

\* Lines 323-326: const handler = handlers[functionId]; if (!handler).
HasHandler(handlers, functionId) ==
    functionId \in handlers \cup ObjectPrototype

ChatFunctionNotFound == "Chat Function not found"
HandlerFailed == "handler failed"
ExecutionFailure == "execution failed"

\* Lines 280-289, 310-327, 333-341: an output with the chat mime type is
\* not yielded; handleChatOutput throws without a handler and calls the
\* handler otherwise.
Intercepted(e, functionId) ==
    IF HasHandler(e.handlers, functionId)
    THEN Logged([Logged(Received(e), "chat") EXCEPT !.pc = "handling"],
                "handler")
    ELSE Throw(Logged(Received(e), "chat"), ChatFunctionNotFound)

ChatOutputReceived(c, functionId) ==
    /\ c \in 1..Len(wrapper.execs)
    /\ Consuming(wrapper.execs[c])
    /\ Consumed(wrapper.execs[c]) < MaxOutputs
    /\ wrapper.execs[c].depth < MaxDepth
    /\ wrapper' = [wrapper EXCEPT !.execs[c] = Intercepted(@, functionId)]
    /\ UNCHANGED access
    /\ KernelFrame

\* A handler whose result is sent to the kernel without waiting for the
\* outputs of its execution.
ReinjectedAside(e) == [Logged(e, "execute") EXCEPT !.pc = "executing"]

\* Lines 327-331: the handler resolved; its result is executed as code.
Reinjected(e) ==
    Logged([e EXCEPT !.pc = "executing", !.depth = @ + 1], "execute")

HandlerResolved(c) ==
    /\ c \in 1..Len(wrapper.execs)
    /\ wrapper.execs[c].pc = "handling"
    /\ wrapper' = [wrapper EXCEPT !.execs[c] = Reinjected(@)]
    /\ UNCHANGED access
    /\ KernelFrame

\* Line 327: the handler rejected.
HandlerRejected(c) ==
    /\ c \in 1..Len(wrapper.execs)
    /\ wrapper.execs[c].pc = "handling"
    /\ wrapper' = [wrapper EXCEPT !.execs[c] = Throw(@, HandlerFailed)]
    /\ UNCHANGED access
    /\ KernelFrame

\* Lines 294-297, 331-347: the innermost execution ended: the loop of
\* handleChatOutput returns to the enclosing loop, the loop of
\* executeCodeInternal ends through the finally block.
Ended(e) ==
    IF e.depth > 1
    THEN [Logged(e, "end") EXCEPT !.pc = "executing", !.depth = @ - 1]
    ELSE Finally([Logged(e, "end") EXCEPT !.pc = "done"])

ExecutionEnded(c) ==
    /\ c \in 1..Len(wrapper.execs)
    /\ Consuming(wrapper.execs[c])
    /\ wrapper' = [wrapper EXCEPT !.execs[c] = Ended(@)]
    /\ UNCHANGED access
    /\ KernelFrame

\* Lines 277, 331: the innermost execution failed.
ExecutionFailed(c) ==
    /\ c \in 1..Len(wrapper.execs)
    /\ Consuming(wrapper.execs[c])
    /\ wrapper' = [wrapper EXCEPT !.execs[c] = Throw(@, ExecutionFailure)]
    /\ UNCHANGED access
    /\ KernelFrame

\* Lines 289, 292, 295-297: the consumer stops at a yielded output; the
\* generators return through the finally block.
ConsumerReturned(c) ==
    /\ c \in 1..Len(wrapper.execs)
    /\ wrapper.execs[c].pc = "yielded"
    /\ wrapper' = [wrapper EXCEPT !.execs[c] =
           Finally([@ EXCEPT !.pc = "returned"])]
    /\ UNCHANGED access
    /\ KernelFrame

\* Lines 241-260: the execution fires events.started or
\* events.executionAcknowledged; the listeners run while they are held.
RequestSent(c) ==
    /\ c \in 1..Len(wrapper.execs)
    /\ "started" \in wrapper.execs[c].subscriptions
    /\ wrapper' = [wrapper EXCEPT !.execs[c].properties.requestSent = TRUE]
    /\ UNCHANGED access
    /\ KernelFrame

RequestAcknowledged(c) ==
    /\ c \in 1..Len(wrapper.execs)
    /\ "executionAcknowledged" \in wrapper.execs[c].subscriptions
    /\ wrapper' =
           [wrapper EXCEPT !.execs[c].properties.requestAcknowledged = TRUE]
    /\ UNCHANGED access
    /\ KernelFrame

\* Mutation: the listener records the signals that had fired.
onCancellationRequestedInverted(e) ==
    IF e.completed THEN e
    ELSE [e EXCEPT
            !.properties.cancelled = TRUE,
            !.properties.cancelledBeforeRequestSent =
                e.properties.requestSent,
            !.properties.cancelledBeforeRequestAcknowledged =
                e.properties.requestAcknowledged]

\* Lines 262-274: the listener of token.onCancellationRequested.
onCancellationRequested(e) ==
    IF e.completed THEN e
    ELSE [e EXCEPT
            !.properties.cancelled = TRUE,
            !.properties.cancelledBeforeRequestSent =
                ~e.properties.requestSent,
            !.properties.cancelledBeforeRequestAcknowledged =
                ~e.properties.requestAcknowledged]

\* The token of call c is signalled, once its code was handed to the
\* execution: the listener runs if the call still holds it.
CancellationRequested(c) ==
    /\ c \in 1..Len(wrapper.execs)
    /\ wrapper.execs[c].delegated
    /\ ~wrapper.execs[c].token
    /\ wrapper' = [wrapper EXCEPT !.execs[c] =
           [(IF "onCancellationRequested" \in @.subscriptions
             THEN onCancellationRequested(@) ELSE @) EXCEPT !.token = TRUE]]
    /\ UNCHANGED access
    /\ KernelFrame

\* Change handlers that leave the cached promise alone.
ChangeHandlersNoop(w) == w

\* Line 154: what the registered change handlers do to the wrapper.
ChangeHandlers(w) ==
    IF w.handlers > 0 THEN [w EXCEPT !.accessAllowed = 0] ELSE w

\* The policy announces changed permissions; the handlers run.
PermissionsChanged ==
    /\ access.changes < MaxChanges
    /\ access' = [access EXCEPT !.changes = @ + 1]
    /\ wrapper' = ChangeHandlers(wrapper)
    /\ KernelFrame

KernelSteps ==
    \/ executeCode
    \/ \E p \in 1..MaxExecs, accessAllowed \in BOOLEAN :
           doCheckAccessResumed(p, accessAllowed)
    \/ \E p \in 1..MaxExecs : doCheckAccessRejected(p)
    \/ \E c \in 1..MaxExecs : checkAccessResumed(c)
    \/ \E c \in 1..MaxExecs, kernel \in KernelStates :
           executeCodeInternal(c, kernel)
    \/ \E c \in 1..MaxExecs : OutputYielded(c)
    \/ \E c \in 1..MaxExecs : ExecutionEnded(c)
    \/ PermissionsChanged

\* --------------------------------------------------- display updates
\* An update: the output type and transient.display_id of its metadata
\* (0: none).
DisplayUpdates ==
    [outputType : {"display_data", "execute_result"}, display_id : 0..2]

\* kernel.session when the update arrives (0: none), and the display ids
\* tracked in that session, each with the extension it is tracked for.
Sessions == 0..1
TrackedSets == SUBSET (ExtensionIds \X {1})

\* The display id is tracked for the extension in the session.
isDisplayIdTrackedForExtension(extensionId, tracked, display_id) ==
    <<extensionId, display_id>> \in tracked

\* A listener that passes every display_data update of a live session.
FiresUntracked(extensionId, update, session, tracked) ==
    /\ update.outputType = "display_data"
    /\ update.display_id # 0
    /\ session # 0

\* Lines 104-112: the condition under which the listener fires
\* _onDidReceiveDisplayUpdate.
Fires(extensionId, update, session, tracked) ==
    /\ update.outputType = "display_data"
    /\ update.display_id # 0
    /\ session # 0
    /\ isDisplayIdTrackedForExtension(extensionId, tracked,
                                      update.display_id)

\* Lines 101-115: execution.onDidReceiveDisplayUpdate calls the listener
\* of the wrapper.
onDidReceiveDisplayUpdate(update, session, tracked) ==
    /\ Len(wrapper.updates) < MaxUpdates
    /\ wrapper' = [wrapper EXCEPT !.updates =
           Append(@, [fired |-> Fires(wrapper.extensionId, update,
                                      session, tracked), session |-> session,
                      tracked |-> tracked,
                      update |-> update])]
    /\ UNCHANGED access
    /\ KernelFrame

DisplaySteps ==
    \E update \in DisplayUpdates, session \in Sessions,
       tracked \in TrackedSets :
        onDidReceiveDisplayUpdate(update, session, tracked)

\* A call of executeCodeInternal with chat handlers, to its end.
ChatSteps ==
    \/ \E handlers \in HandlerTables : DirectCall(handlers)
    \/ \E c \in 1..MaxDirect, kernel \in KernelStates :
           executeCodeInternal(c, kernel)
    \/ \E c \in 1..MaxDirect : OutputYielded(c)
    \/ \E c \in 1..MaxDirect, functionId \in Functions :
           ChatOutputReceived(c, functionId)
    \/ \E c \in 1..MaxDirect : HandlerResolved(c)
    \/ \E c \in 1..MaxDirect : HandlerRejected(c)
    \/ \E c \in 1..MaxDirect : ExecutionEnded(c)
    \/ \E c \in 1..MaxDirect : ExecutionFailed(c)
    \/ \E c \in 1..MaxDirect : ConsumerReturned(c)

\* ------------------------------------------------------- specifications
vars == <<storeVars, flowVars, kernelVars>>

\* The store under callers that call it directly.
Next == StoreCalls \/ StoreSteps \/ Readers

Init == StoreInit /\ FlowUnused /\ KernelUnused

Spec == Init /\ [][Next]_vars

\* Promise callbacks always run and every storage call settles.
QueueNext == StoreCalls \/ StoreSteps

QueueSpec == Init /\ [][QueueNext]_vars

QueueFair == QueueSpec /\ WF_vars(StoreSteps)

\* The provider under commands that run the capture workflow, one at a
\* time, with the store doing what the workflow asked for.
LoadSteps == getServersRetrieved \/ getServersRetrieveFailed

FlowNext == FlowSteps \/ CommandSteps \/ StoreSteps \/ LoadSteps

FlowStart == StoreInit /\ FlowInit /\ KernelUnused

FlowSpec == FlowStart /\ [][FlowNext]_vars

\* The provider under calls of provideJupyterServers, removeJupyterServer
\* and resolveJupyterServer.
ProviderNext == ProviderSteps \/ StoreSteps \/ LoadSteps
ProviderSpec == Init /\ [][ProviderNext]_vars

\* Two workflows on one provider.
PairNext == PairSteps \/ CommandSteps \/ StoreSteps \/ LoadSteps
PairSpec == FlowStart /\ [][PairNext]_vars

\* One call with the signals of its execution and of its token.
SignalSteps ==
    \/ \E c \in 1..MaxDirect : RequestSent(c)
    \/ \E c \in 1..MaxDirect : RequestAcknowledged(c)
    \/ \E c \in 1..MaxDirect : CancellationRequested(c)

\* One wrapper under executeCode calls that may overlap.
KernelNext == KernelSteps
KernelStart == StoreInit /\ FlowUnused /\ KernelInit
KernelSpec == KernelStart /\ [][KernelNext]_vars

\* One wrapper under direct calls of executeCodeInternal.
ChatNext == ChatSteps
ChatSpec == KernelStart /\ [][ChatNext]_vars

\* The same, with the signals of the execution and of the token.
CancelNext == ChatSteps \/ SignalSteps
CancelSpec == KernelStart /\ [][CancelNext]_vars

\* One wrapper under display updates.
DisplayNext == DisplaySteps
DisplaySpec == KernelStart /\ [][DisplayNext]_vars

\* getServers alone, over every stored content up to MaxItems entries.
LoadItems ==
    { MkItem(1, UriA, "one"), MkItem(2, UriB, ""),
      MkItem(3, UriSentinel, "crafted"), MkItem(4, UriGarbage, "") }

RECURSIVE SeqsUpTo(_, _)
SeqsUpTo(S, n) ==
    IF n = 0 THEN {<<>>}
    ELSE LET shorter == SeqsUpTo(S, n - 1)
         IN  shorter \cup {Append(q, x) : q \in shorter, x \in S}

LoadPayloads ==
    {PayloadMissing, PayloadEmpty, PayloadInvalid}
    \cup {JSONstringify(items) : items \in SeqsUpTo(LoadItems, MaxItems)}

LoadInit ==
    /\ data \in LoadPayloads
    /\ data0 = data
    /\ servers = NotLoaded
    /\ calls = <<>>
    /\ outcome = <<>>
    /\ updatePromise = "resolved"
    /\ head = 1
    /\ jobpc = "idle"
    /\ jobSnap = PayloadMissing
    /\ jobLoaded = <<>>
    /\ jobPayload = PayloadMissing
    /\ failedCalls = {}
    /\ rd = RdIdle
    /\ res = NoResult

LoadStart == LoadInit /\ FlowUnused /\ KernelUnused

LoadSpec == LoadStart /\ [][Readers]_vars

\* The validation of a url a command is given, over every url of up to
\* MaxSegments path segments.
EnteredUrls ==
    LET all == { [MkUri(TRUE, "http", host, path, query, "")
                     EXCEPT !.slash = slash] :
                   host \in {"localhost", "lab"},
                   path \in SeqsUpTo({"a", "lab", "tree"}, MaxSegments),
                   query \in {"none", "bare"},
                   slash \in BOOLEAN }
    IN  {uri \in all : uri.path = <<>> \/ uri.slash}

ValidateNext ==
    \/ activate
    \/ \E initialUrl \in EnteredUrls : StartFlow(initialUrl)
    \/ \E redirect \in Redirects : SeedValidated(redirect)
    \/ LoadSteps

ValidateSpec == FlowStart /\ [][ValidateNext]_vars


\* ====================================================== claims, the store
\* What the calls are expected to leave in storage, one call at a time.
\* An entry is readable when its uri is a URL that does not start with the
\* reserved prefix; a reload keeps the readable entries and fills in an
\* empty display name with the host name.
Readable(item) ==
    item.uri.wellFormed /\ ~(item.uri.scheme = "https" /\ item.uri.host = "remote")

Reloaded(payload) ==
    IF payload.kind # "array" THEN <<>>
    ELSE LET kept == SelectSeq(payload.items, Readable)
         IN  [i \in 1..Len(kept) |->
                 MkItem(kept[i].handle, kept[i].uri,
                        IF kept[i].displayName = "" THEN kept[i].uri.host
                        ELSE kept[i].displayName)]

ItemOf(server) == MkItem(server.handle, server.uri, server.serverInfo.displayName)

AfterCall(payload, call) ==
    IF call.op = "clear" THEN PayloadMissing
    ELSE IF call.op = "add"
    THEN Payload("array", Append(Reloaded(payload), ItemOf(call.server)))
    ELSE Payload("array", SelectSeq(Reloaded(payload),
                                    LAMBDA it : it.handle # call.handle))

RECURSIVE AfterCalls(_, _)
AfterCalls(payload, cs) ==
    IF cs = <<>> THEN payload
    ELSE AfterCalls(AfterCall(payload, Head(cs)), Tail(cs))

IsAddARemoveA ==
    /\ Len(calls) = 3
    /\ calls[1].op = "add" /\ calls[1].handle = 1
    /\ calls[2].op = "add" /\ calls[2].handle = 2
    /\ calls[3].op = "remove" /\ calls[3].handle = 1

\* C1: when every issued add/remove/clear has completed and no storage call
\* failed, the stored payload is what the calls, applied one at a time in
\* the order they were issued, leave; add(A), add(B), remove(A) on an empty
\* storage leave exactly B.
C1_FifoApplication ==
    (QueueIdle /\ failedCalls = {}) =>
        /\ data = AfterCalls(data0, calls)
        /\ (data0 = PayloadMissing /\ IsAddARemoveA) =>
               data = Payload("array", <<ItemOf(calls[2].server)>>)

C1_Witness ==
    /\ QueueIdle /\ failedCalls = {}
    /\ data0 = PayloadMissing /\ IsAddARemoveA
    /\ data.kind = "array" /\ Len(data.items) = 1 /\ data.items[1].handle = 2

NoDuplicateHandle(list) ==
    \A i, j \in 1..Len(list) : i # j => list[i].handle # list[j].handle

\* C2: once the issued calls have completed, neither the in-memory list
\* nor the stored list holds two entries with one handle.
C2_OneEntryPerHandle ==
    (QueueIdle /\ failedCalls = {} /\ calls # <<>>) =>
        /\ servers.loaded => NoDuplicateHandle(servers.list)
        /\ NoDuplicateHandle(data.items)

\* The last call issued that concerns a handle: add(h), remove(h) or clear.
Concerns(call, h) == call.op = "clear" \/ call.handle = h

LastOp(h) ==
    LET idx == {i \in 1..Len(calls) : Concerns(calls[i], h)}
    IN  IF idx = {} THEN "none"
        ELSE calls[CHOOSE i \in idx : \A k \in idx : k <= i].op

\* C3: a getServers(false) call made after add(server), with no remove of
\* its handle and no clear since, returns a list holding that handle.
C3_AddedIsVisible ==
    (res.valid /\ ~res.overlapped) =>
        \A h \in Handles : LastOp(h) = "add" => h \in HandlesOf(res.list)

\* C4: a getServers(false) call made after remove(handle), with no add of
\* that handle since, returns a list without that handle.
C4_RemovedIsGone ==
    (res.valid /\ ~res.overlapped) =>
        \A h \in Handles : LastOp(h) = "remove" => h \notin HandlesOf(res.list)

\* A step in which a getServers(false) call returns.
Returns ==
    /\ res'.valid
    /\ rd'.pc = "idle"
    /\ rd.pc = "retrieving" => res' # res

\* C5: of two consecutive getServers(false) calls with no add, remove or
\* clear between them (and no queued callback running), the second returns
\* the object the first returned and reads no storage.
C5_StableResult ==
    [][(res.valid /\ res.idle /\ Returns) =>
           (res'.ref = res.ref /\ ~res'.didRead)]_vars

C6_NoneRejected == \A i \in 1..Len(calls) : outcome[i] # "rejected"

C6_AllResolved == \A i \in 1..Len(calls) : outcome[i] = "resolved"

\* C6: no add, remove or clear call rejects, whichever storage call fails,
\* and from every moment on there comes a moment at which every call issued
\* so far has resolved.
C6_NeverRejectsAlwaysResolves ==
    /\ []C6_NoneRejected
    /\ []<>C6_AllResolved

\* A call whose storage call failed has resolved, and a call queued after
\* it has run to its end.
C6_Witness ==
    \E i \in failedCalls : \E j \in (i + 1)..Len(calls) :
        /\ outcome[i] = "resolved"
        /\ outcome[j] = "resolved" /\ j \notin failedCalls

NoLaterRemoval(i) ==
    \A k \in (i + 1)..Len(calls) : ~Concerns(calls[k], calls[i].handle)

\* C7: after a storage call of add(S) failed (and S was not removed since),
\* getServers(false) returns S, and once a later mutation has been written
\* the stored list holds S.
C7_FailedAddSurvives ==
    \A i \in failedCalls :
        (calls[i].op = "add" /\ i < head /\ NoLaterRemoval(i)) =>
            /\ (res.valid /\ ~res.overlapped) =>
                   calls[i].handle \in HandlesOf(res.list)
            /\ (\E j \in (i + 1)..(head - 1) : j \notin failedCalls) =>
                   calls[i].handle \in HandlesOf(data.items)

C9_NoPromptAfterYes ==
    consented => ~(wf.pc = "insecure" /\ PromptShown(allowInsecure))

\* The server of the add call a step issues, if it issues one.
Added == calls'[Len(calls')].server

\* C10: a step adds a server to the store only when it is the acceptance
\* of the display name, in a loop iteration whose validateRemoteUri
\* resolved for the handle that is stored and for the descriptor that is
\* stored (the display name is the one thing set after the probe).
C10_AddedOnlyAfterProbe ==
    [][Len(calls') > Len(calls) =>
          /\ wf.pc = "name"
          /\ wf.probed.ok
          /\ wf.probed.handle = Added.handle
          /\ wf.probed.handle = wf.handle
          /\ wf.probed.serverUri =
                 [Added.serverInfo EXCEPT
                     !.displayName = wf.probed.serverUri.displayName]
          /\ Added.serverInfo.displayName \in
                 DisplayNames \cup {wf.probed.serverUri.displayName}]_vars

\* A workflow whose first iteration did not get through (a Back, a retry
\* or a failure made it loop) has added a server.
C10_Witness ==
    /\ Len(calls) = 1
    /\ calls[1].op = "add"
    /\ calls[1].handle # FirstUuid


\* C11: when the user answered No at the insecure prompt, or the await
\* that settled last was rejected with the Cancel signal (a prompt that
\* was dismissed, or a collaborator that raised it), the workflow has
\* returned the Cancel result, and in the first command of the process
\* the store was not called and no change event fired.
C11_CancelEndsWorkflow ==
    (wf.last = Event("insecure", "false") \/ wf.last.what = "cancel") =>
        /\ wf.pc = "done"
        /\ wf.result = "cancel"
        /\ runs = 1 => calls = <<>> /\ fired = 0


\* The run was given a url that validates.
SeededValid ==
    /\ wf.initialUrl # EmptyUrl
    /\ \A redirect \in Redirects :
          parseUserUriAndGetValidationError(wf.initialUrl, redirect)
              .validationError = NoMessage

\* A password prompt, an insecure prompt was shown for the current url.
PasswordAsked == wf.requiresPassword /\ wf.jupyterServerUri.token = ""
InsecureAsked == wf.isInsecureConnection /\ PromptShown(allowInsecure)

\* C12: in a run that was given a valid url and has not shown the url
\* prompt, a Back signal at the password, insecure or display-name step
\* does not show the url prompt; at the password and insecure steps, and
\* at the display-name step when no password prompt and no insecure
\* prompt came before it, the step returns back-to-caller and calls
\* nothing of the store.
C12_BackLeavesSeededRun ==
    [][(/\ wf' # wf
        /\ wf'.last.what = "back"
        /\ wf'.last.at \in {"hub", "password", "insecure", "name"}
        /\ SeededValid
        /\ ~wf.urlShown) =>
          /\ wf'.pc # "url"
          /\ (wf'.last.at = "name" => ~PasswordAsked /\ ~InsecureAsked) =>
                /\ wf'.pc = "done"
                /\ wf'.result = "back"
                /\ calls' = calls]_vars


Credentials == {"", "abc", "xyz"} \X {"none", "xsrf"}
WithCredentials(server, c) ==
    [server EXCEPT !.serverInfo.token = c[1],
                   !.serverInfo.authorizationHeader = c[2]]

\* The servers add was called with, and the records of the payload that
\* belong to servers added by this process.
AddedServers == {calls[i].server : i \in {j \in 1..Len(calls) : calls[j].op = "add"}}
WrittenItems ==
    {data.items[i] : i \in {j \in 1..Len(data.items) : data.items[j].handle >= FirstUuid}}

\* The record of a server does not change with its token and headers.
C17_Independent ==
    \A server \in AddedServers : \A c \in Credentials :
        serverToStorageFormat(<<WithCredentials(server, c)>>) =
            serverToStorageFormat(<<server>>)

\* C17 as stated: the record of a server does not change with its token
\* and headers, and no record written for a server this process added
\* carries a token.
C17_NoTokenInPayload ==
    /\ C17_Independent
    /\ \A item \in WrittenItems : item.uri.token = ""

\* C17: the record of a server does not change with the token and the
\* headers of its serverInfo, and a record written for a server this
\* process added is the handle, the entered url and the display name add
\* was called with and nothing else: it has no header, and a token only
\* where the entered url has one.
C17_PayloadIsHandleUrlName ==
    /\ C17_Independent
    /\ \A item \in WrittenItems :
          /\ DOMAIN item = {"handle", "uri", "displayName"}
          /\ \E server \in AddedServers :
                /\ item = MkItem(server.handle, server.uri,
                                 server.serverInfo.displayName)
                /\ item.uri.token = server.serverInfo.token

\* A server with a token and an authorization header was written.
C17_Witness ==
    \E item \in WrittenItems : \E server \in AddedServers :
        /\ server.handle = item.handle
        /\ server.serverInfo.token # ""
        /\ server.serverInfo.authorizationHeader # "none"


\* The ids of a list of JupyterServer.
Ids(list) == {list[i].id : i \in 1..Len(list)}

\* C14: the step in which the workflow returns its handle is taken when
\* the add it awaited has resolved, and it is the step that fires the
\* change event, once; the step in which removeJupyterServer(id) resolves
\* is taken when the remove it awaited has resolved, and it fires the
\* event; and a provideJupyterServers call started after that does not
\* list id.
C14_NotifyAfterMutation ==
    [][/\ (wf'.result = "handle" /\ wf.result # "handle") =>
              /\ wf.pc = "adding"
              /\ outcome[wf.callIdx] = "resolved"
              /\ fired' = fired + 1
       /\ (api'.name = "removeJupyterServer" /\ api'.result = "void"
               /\ api.result # "void") =>
              /\ api.pc = "removing"
              /\ outcome[api.callIdx] = "resolved"
              /\ fired' = fired + 1
       /\ (api'.result = "list" /\ api.result # "list") =>
              Ids(api'.listed) \cap api.removed = {}]_vars


\* C15: when handleCommand has returned, then after a workflow that
\* returned a handle it returned the server of the list
\* provideJupyterServers gave whose id is that handle, after one that
\* returned Cancel it threw a CancellationError, and after one that
\* returned Back it returned undefined.
C15_CommandResult ==
    (api.name = "handleCommand" /\ api.pc = "done") =>
        /\ wf.result = "handle" =>
              /\ api.result = "server"
              /\ api.server.id = wf.handle
              /\ \E i \in 1..Len(api.listed) : api.listed[i] = api.server
        /\ wf.result = "cancel" => api.result = "CancellationError"
        /\ wf.result = "back" => api.result = "undefined"


\* C16: when resolveJupyterServer(id) has settled and id is in the list
\* the store gave, getPasswordConnectionInfo was called once, with id as
\* handle, the call returned the connection information, and unless the
\* negotiation rejected its headers are the headers the negotiation
\* resolved with; when id is not in that list, or the store gave none,
\* the call threw an error, getPasswordConnectionInfo was not called and
\* the step changed neither the stored payload nor the queue of the store.
C16_ResolveNegotiatesOnce ==
    [][(api'.name = "resolveJupyterServer" /\ api'.pc = "done"
        /\ api.pc # "done") =>
          IF api'.id \in Ids(api'.listed)
          THEN /\ api'.result = "info"
               /\ api'.negotiations = <<api'.id>>
               /\ api'.produced # "rejected" =>
                     api'.info.authorizationHeader = api'.produced
          ELSE /\ api'.result = "Error"
               /\ api'.negotiations = <<>>
               /\ UNCHANGED <<data, calls>>]_vars


\* What getServers(false) returns when it is called now and its retrieve
\* resolves.
WouldList == IF servers.loaded THEN servers.list ELSE getServersLoad(data).list

BothSucceeded ==
    /\ wf.pc = "done" /\ wf.result = "handle"
    /\ other.pc = "done" /\ other.result = "handle"

\* C18: a step of one workflow leaves the locals of the other as they
\* are, and once both workflows have returned a handle the two handles
\* differ and both are in the stored payload and in the list the store
\* gives.
C18_BothPersisted ==
    [][/\ other' # other => wf' = wf
       /\ wf' # wf => other' = other
       /\ BothSucceeded' =>
              /\ wf'.handle # other'.handle
              /\ {wf'.handle, other'.handle} \subseteq HandlesOf(data'.items)
              /\ {wf'.handle, other'.handle} \subseteq HandlesOf(WouldList')]_vars



\* ===================================================== claims, the kernel
\* The doCheckAccess promise that call e awaits.
PromiseOf(e) == wrapper.promises[e.promise]

\* C19: an executeCode call of a third-party extension whose access the
\* policy denies throws the access-revoked error, and its code is never
\* handed to the execution of the kernel nor any output yielded; for the
\* first-party extension the policy is never asked.
C19_DeniedFailsBeforeDelegation ==
    /\ wrapper.extensionId = JVSC_EXTENSION_ID => access.requests = 0
    /\ wrapper.extensionId # JVSC_EXTENSION_ID =>
         \A c \in 1..Len(wrapper.execs) :
           LET e == wrapper.execs[c]
           IN  PromiseOf(e).state = "denied" =>
                 /\ ~e.delegated
                 /\ e.outputs = 0
                 /\ e.pc \in {"checking", "thrown"}
                 /\ e.pc = "thrown" => e.error = KernelAPIAccessRevoked

\* A denied call has thrown next to a call of an earlier, allowed answer
\* that yielded an output.
C19_Witness ==
    /\ wrapper.extensionId # JVSC_EXTENSION_ID
    /\ \E c, d \in 1..Len(wrapper.execs) :
         /\ PromiseOf(wrapper.execs[c]).state = "denied"
         /\ wrapper.execs[c].pc = "thrown"
         /\ wrapper.execs[d].outputs > 0

\* C20: no two requests to the policy are made without an announcement
\* of changed permissions between them, however many executeCode calls
\* there are; and every call awaits a request made after the last
\* announcement before the call, and acts on the answer to that request.
C20_OneRequestPerChange ==
    /\ \A p, q \in 1..Len(wrapper.promises) :
         p # q => wrapper.promises[p].changes # wrapper.promises[q].changes
    /\ wrapper.extensionId # JVSC_EXTENSION_ID =>
         \A c \in 1..Len(wrapper.execs) :
           LET e == wrapper.execs[c]
           IN  /\ e.promise \in 1..Len(wrapper.promises)
               /\ PromiseOf(e).changes = e.changes
               /\ e.pc # "checking" =>
                    /\ PromiseOf(e).state = "allowed" =>
                         e.error \notin {KernelAPIAccessRevoked, RequestFailed}
                    /\ PromiseOf(e).state = "denied" =>
                         e.error = KernelAPIAccessRevoked

\* Two overlapping calls shared one request, and a call made after an
\* announcement acted on a different answer to a second request.
C20_Witness ==
    \E b, c, d \in 1..Len(wrapper.execs) :
      /\ b < c /\ c < d
      /\ wrapper.execs[b].promise = wrapper.execs[c].promise
      /\ wrapper.execs[b].pc = "thrown"
      /\ wrapper.execs[c].pc = "thrown"
      /\ wrapper.execs[d].promise # wrapper.execs[c].promise
      /\ wrapper.execs[d].changes > wrapper.execs[c].changes
      /\ PromiseOf(wrapper.execs[c]).state = "denied"
      /\ PromiseOf(wrapper.execs[d]).state = "allowed"
      /\ wrapper.execs[d].delegated


\* The errors of lines 209-221.
KernelErrors == {KernelIsDisposed, KernelIsDead, KernelNotAvailable}

\* C21: a call that starts on a disposed kernel fails with 'Kernel is
\* disposed', one that starts without a live session fails with the
\* dead-or-terminating message for those two statuses and with the
\* connection message otherwise; such a call has yielded no output,
\* handed nothing to the execution of the kernel and sent exactly one
\* execution event, with failed set, and nothing of that changes later.
C21_KernelUnavailable ==
    [][/\ \A c \in 1..Len(wrapper.execs), kernel \in KernelStates :
            (/\ executeCodeInternal(c, kernel)
             /\ kernel.disposed \/ ~kernel.session) =>
              LET e == wrapper'.execs[c]
              IN  /\ e.pc = "thrown"
                  /\ e.error =
                       IF kernel.disposed THEN KernelIsDisposed
                       ELSE IF kernel.status \in {"dead", "terminating"}
                       THEN KernelIsDead
                       ELSE KernelNotAvailable
                  /\ e.outputs = 0
                  /\ ~e.delegated
                  /\ e.log = <<>>
                  /\ Len(e.telemetry) = 1
                  /\ e.telemetry[1].failed
       /\ \A c \in 1..Len(wrapper.execs) :
            wrapper.execs[c].error \in KernelErrors =>
              wrapper'.execs[c] = wrapper.execs[c]]_vars

\* A call has failed on a dead kernel.
C21_Witness ==
    \E c \in 1..Len(wrapper.execs) :
      /\ wrapper.execs[c].error = KernelIsDead
      /\ Len(wrapper.execs[c].telemetry) = 1
      /\ wrapper.execs[c].telemetry[1].failed


\* C22: a chat output that names a function the handler table of the
\* call does not hold, at any depth, makes the call fail with an error,
\* and the call yields no output from then on.
C22_UnknownFunctionFails ==
    [][\A c \in 1..Len(wrapper.execs) :
         /\ \A functionId \in Functions :
              (/\ ChatOutputReceived(c, functionId)
               /\ functionId \notin wrapper.execs[c].handlers) =>
                 /\ wrapper'.execs[c].pc = "thrown"
                 /\ wrapper'.execs[c].error # "none"
                 /\ wrapper'.execs[c].outputs = wrapper.execs[c].outputs
         /\ wrapper.execs[c].pc = "thrown" =>
              wrapper'.execs[c].outputs = wrapper.execs[c].outputs]_vars



\* The executions call e had open after the first n entries of its log.
Open(e, n) ==
    Cardinality({i \in 1..n : e.log[i][1] = "execute"})
    - Cardinality({i \in 1..n : e.log[i][1] = "end"})

\* C23: a chat output is never yielded; its handler is called once,
\* right when the output arrives; the result of the handler starts one
\* execution, one level deeper; and every output is taken from the
\* innermost execution that is open, so that an enclosing execution is
\* read again only after the nested one has ended.
C23_ChatIsSequential ==
    \A c \in 1..Len(wrapper.execs) :
      LET e == wrapper.execs[c]
          n == Len(e.log)
      IN  /\ e.outputs =
               Cardinality({i \in 1..n : e.log[i][1] = "yield"})
          /\ \A i \in 1..n :
               /\ e.log[i][1] = "chat" =>
                    IF i = n
                    THEN e.error = ChatFunctionNotFound
                    ELSE e.log[i + 1] = <<"handler", e.log[i][2]>>
               /\ e.log[i][1] = "handler" =>
                    /\ i > 1
                    /\ e.log[i - 1] = <<"chat", e.log[i][2]>>
                    /\ IF i = n
                       THEN e.pc = "handling" \/ e.error = HandlerFailed
                       ELSE e.log[i + 1] = <<"execute", e.log[i][2] + 1>>
               /\ e.log[i][1] = "execute" =>
                    /\ Open(e, i) = e.log[i][2]
                    /\ i > 1 => e.log[i - 1][1] = "handler"
               /\ e.log[i][1] \in {"yield", "chat", "end"} =>
                    e.log[i][2] = Open(e, i - 1)
          /\ e.pc \in {"executing", "handling", "yielded"} =>
               e.depth = Open(e, n)

\* A chat output of a nested execution was handled and the outputs that
\* followed were yielded from the innermost execution outwards.
C23_Witness ==
    \E c \in 1..Len(wrapper.execs) :
      LET e == wrapper.execs[c]
      IN  /\ Len(e.log) = 8
          /\ e.pc = "done"
          /\ e.log[2] = <<"chat", 1>>
          /\ e.log[5] = <<"yield", 2>>
          /\ e.log[6] = <<"end", 2>>
          /\ e.log[7] = <<"yield", 1>>



\* C24: no call sends more than one execution event, and a call whose
\* outputs have come to an end, by completion, by an error or by the
\* consumer stopping, has sent exactly one and holds no listener, also
\* when chat handlers started nested executions.
C24_OneEventPerCall ==
    \A c \in 1..Len(wrapper.execs) :
      LET e == wrapper.execs[c]
      IN  /\ Len(e.telemetry) <= 1
          /\ e.pc \in {"done", "thrown", "returned"} =>
               /\ Len(e.telemetry) = 1
               /\ e.subscriptions = {}

\* The consumer stopped at an output of a nested execution.
C24_Witness ==
    \E c \in 1..Len(wrapper.execs) :
      LET e == wrapper.execs[c]
      IN  /\ e.pc = "returned"
          /\ e.log[Len(e.log)] = <<"yield", 2>>
          /\ Len(e.telemetry) = 1
          /\ e.subscriptions = {}



\* C25: the wrapper of an extension fires its display-update event only
\* for a display_data update that arrives while the kernel has a session
\* and whose display id is tracked for that extension in that session.
C25_OnlyTrackedUpdates ==
    \A i \in 1..Len(wrapper.updates) :
      LET u == wrapper.updates[i]
      IN  u.fired =>
            /\ u.update.outputType = "display_data"
            /\ u.session # 0
            /\ <<wrapper.extensionId, u.update.display_id>> \in u.tracked

\* An update was delivered, and one whose display id is tracked for the
\* other extension only was not.
C25_Witness ==
    \E i, j \in 1..Len(wrapper.updates) :
      /\ wrapper.updates[i].fired
      /\ ~wrapper.updates[j].fired
      /\ wrapper.updates[j].session # 0
      /\ wrapper.updates[j].update = wrapper.updates[i].update
      /\ wrapper.updates[j].tracked # {}



\* ================================================= claims, the entered url
\* The string ends in /lab, /lab?, /tree or /tree?.
EndsInLabOrTree(uri) ==
    /\ uri.wellFormed
    /\ uri.query \in {"none", "bare"}
    /\ IF uri.path # <<>>
       THEN uri.path[Len(uri.path)] \in {"lab", "tree"}
       ELSE ~uri.slash /\ uri.host \in {"lab", "tree"}

\* C26: a url that ends in /lab, /lab?, /tree or /tree? passes the
\* validation, and the base url of its descriptor does not end in a path
\* segment lab or tree.
C26_SuffixStripped ==
    (wf.last.at = "seed" /\ EndsInLabOrTree(wf.initialUrl)) =>
        /\ wf.last.what = "valid"
        /\ LET path == wf.jupyterServerUri.baseUrl.path
           IN  path # <<>> => path[Len(path)] \notin {"lab", "tree"}



\* ------------------------------------------- claims, the insecure gate
\* A step in which the loop passes the 'Check Insecure Connections' step:
\* it ends at the await of the gate or at the await of the probe.
PassesInsecureStep ==
    /\ wf.pc \notin {"insecure", "verify"}
    /\ wf'.pc \in {"insecure", "verify"}

\* C27: in every loop iteration that reaches the insecure-connection step
\* the gate is invoked exactly when the token is empty, the password
\* negotiation reported for the current url that no password is required,
\* and the scheme is http; and a plain-http server with empty token and
\* no password requirement reaches the probe only from a gate that
\* returned true.
C27_GateIffInsecure ==
    [][/\ PassesInsecureStep =>
            (wf'.pc = "insecure" <=>
                /\ wf'.jupyterServerUri.token = ""
                /\ wf'.reported = "notRequired"
                /\ wf'.jupyterServerUri.baseUrl.scheme = "http")
       /\ ( /\ wf.pc # "verify"
            /\ wf'.pc = "verify"
            /\ wf'.jupyterServerUri.token = ""
            /\ wf'.reported = "notRequired"
            /\ wf'.jupyterServerUri.baseUrl.scheme = "http" )
          => wf.pc = "insecure" /\ wf'.last = Event("insecure", "true")]_vars



\* C27, amended: the gate is invoked whenever the token is empty, the
\* negotiation reported for the current url that no password is required
\* and the scheme is http; it is invoked only when the token is empty,
\* the scheme is http and the negotiation has not reported a password
\* requirement for the current url (a negotiation that ended in a
\* certificate error has reported nothing); and such a server with a
\* report of no password reaches the probe only from a gate that
\* returned true.
C27_GateWhenInsecure ==
    [][/\ PassesInsecureStep =>
            /\ ( /\ wf'.jupyterServerUri.token = ""
                 /\ wf'.reported = "notRequired"
                 /\ wf'.jupyterServerUri.baseUrl.scheme = "http" )
               => wf'.pc = "insecure"
            /\ wf'.pc = "insecure" =>
                 /\ wf'.jupyterServerUri.token = ""
                 /\ wf'.reported # "required"
                 /\ wf'.jupyterServerUri.baseUrl.scheme = "http"
       /\ ( /\ wf.pc # "verify"
            /\ wf'.pc = "verify"
            /\ wf'.jupyterServerUri.token = ""
            /\ wf'.reported = "notRequired"
            /\ wf'.jupyterServerUri.baseUrl.scheme = "http" )
          => wf.pc = "insecure" /\ wf'.last = Event("insecure", "true")]_vars

\* The probe is awaited after the gate returned true for a server that
\* reported no password requirement.
C27_Witness ==
    /\ wf.pc = "verify"
    /\ wf.last = Event("insecure", "true")
    /\ wf.reported = "notRequired"



\* ------------------------------------------------ claims, Back signals
\* The step in which the prompt `at` of a workflow that was not given a
\* url, and whose token is not cancelled, rejects with Back.
BackAt(at) ==
    /\ wf' # wf
    /\ wf.pc = at
    /\ wf'.last = Event(at, "back")
    /\ wf.initialUrl = EmptyUrl
    /\ ~cancelled

\* C28: in a workflow not seeded with a url, Back at the password prompt
\* or at the insecure prompt shows the url prompt; Back at the
\* display-name prompt shows the insecure prompt if one was shown for the
\* current url, otherwise goes to the password step if a password was
\* required and no token was given, otherwise shows the url prompt; Back
\* at the url prompt returns back-to-caller.
C28_BackShowsPriorPrompt ==
    [][/\ BackAt("password") \/ BackAt("insecure") => wf'.pc = "url"
       /\ BackAt("name") =>
            IF wf.insecureShown
            THEN wf'.pc = "insecure" /\ PromptShown(allowInsecure)
            ELSE IF wf.reported = "required" /\ wf.jupyterServerUri.token = ""
            THEN wf'.pc = "hub" /\ wf'.nextStep = "Check Insecure Connections"
            ELSE wf'.pc = "url"
       /\ BackAt("url") => wf'.pc = "done" /\ wf'.result = "back"]_vars



\* --------------------------------------- claims, signals from the probe
\* The step in which validateRemoteUri settles.
ProbeSettled ==
    /\ wf.pc = "verify"
    /\ wf' # wf
    /\ wf'.last.at = "verify"

\* C29: when the probe ends with a Cancellation or a Cancel signal the
\* workflow returns the Cancel result; when it ends with Back (and the
\* token is not cancelled) the workflow goes to the previous step, or
\* returns back-to-caller when there is none, and shows no validation
\* error; whatever happened earlier in the iteration.
C29_ProbeSignalUnchanged ==
    [][ProbeSettled =>
        /\ wf'.last.what \in {"CancellationError", "cancel"} =>
              wf'.pc = "done" /\ wf'.result = "cancel"
        /\ (wf'.last.what = "back" /\ ~cancelled) =>
              /\ wf'.shownError = NoMessage
              /\ wf.previousStep = "none" =>
                    wf'.pc = "done" /\ wf'.result = "back"
              /\ wf.previousStep = "Get Url" => wf'.pc = "url"
              /\ wf.previousStep = "Check Passwords" =>
                    wf'.pc \in {"hub", "password"}]_vars



\* ------------------------------------------ claims, the cancelled token
\* The awaits of the loop: the external calls of the workflow.
ExternalCalls == {"url", "hub", "password", "insecure", "verify", "name"}

\* C30: once the token is cancelled, the step in which the external call
\* in flight settles ends the workflow, however the call settled: no
\* further prompt, negotiation or probe is awaited, and the result is
\* Cancel (back-to-caller when the call itself ended with Back).
C30_CancelAtNextCheckpoint ==
    [][(cancelled /\ wf.pc \in ExternalCalls /\ wf' # wf) =>
          /\ wf'.pc = "done"
          /\ wf'.result = "cancel" \/
                (wf'.result = "back" /\ wf'.last.what = "back")]_vars



\* -------------------------------------- claims, the last checkpoint
\* The workflow is inside its loop: addNewServer has not been called.
InLoop == wf.pc \notin {"idle", "done", "adding"}

\* C31: while the token is cancelled and the display-name prompt of the
\* last iteration has not resolved, no step calls the store or fires the
\* change event, and the step in which the prompt resolves does not go on
\* to addNewServer.
C31_CancelledAddsNothing ==
    [][(cancelled /\ InLoop) =>
          /\ calls' = calls
          /\ fired' = fired
          /\ wf'.pc # "adding"]_vars

\* The display-name prompt resolved under a cancelled token and the
\* workflow returned Cancel with the store untouched.
C31_Witness ==
    /\ cancelled
    /\ wf.last = Event("name", "accepted")
    /\ wf.pc = "done"
    /\ wf.result = "cancel"
    /\ calls = <<>>



\* ------------------------------------- claims, failures of the probe
\* C32: when validateRemoteUri rejects with an error that is no control
\* signal, no password-capture failure is remembered and the token is not
\* cancelled, the store is not called and the workflow goes to the url
\* prompt with the self-signed message, to the url prompt with the
\* expired message, to the password step with the password-failure
\* message when a password is required and the token is empty, and
\* otherwise to the url prompt with the connection-failure message.
C32_ProbeFailureRouting ==
    [][\A err \in Errors :
          ( /\ VerifyRejected(err)
            /\ ~IsControl(err)
            /\ ~wf.failedUrlPasswordCapture
            /\ ~cancelled ) =>
              /\ calls' = calls
              /\ IF err.type = "selfCert"
                 THEN /\ wf'.pc = "url"
                      /\ wf'.shownError = Message("selfCert", "")
                 ELSE IF err.type = "expiredCert"
                 THEN /\ wf'.pc = "url"
                      /\ wf'.shownError = Message("expiredCert", "")
                 ELSE IF wf.requiresPassword /\ wf.jupyterServerUri.token = ""
                 THEN /\ wf'.pc = "hub"
                      /\ wf'.nextStep = "Check Insecure Connections"
                      /\ wf'.shownError = Message("passwordFailure", "")
                 ELSE /\ wf'.pc = "url"
                      /\ wf'.shownError = ConnectionFailed(err)]_vars

\* The password step is entered again after the probe failed for a
\* server that requires a password.
C32_Witness ==
    /\ wf.pc = "hub"
    /\ wf.last = Event("verify", "error")
    /\ wf.shownError = Message("passwordFailure", "")



\* --------------------------- claims, the remembered password failure
\* getPasswordConnectionInfo rejected with 'Failed to fetch' for a url
\* that carries a token.
CaptureFailed(err) ==
    /\ err.type = "error"
    /\ IsFailedToFetch(err)
    /\ wf.jupyterServerUri.token # ""

\* C33: when the password negotiation fails with 'Failed to fetch' while
\* a token was supplied (and the token of the command is not cancelled),
\* the workflow awaits the probe; when the probe then fails, the url
\* prompt is shown with the message of the password negotiation; and
\* every password negotiation that settles otherwise leaves no failure
\* remembered.
C33_CaptureFailureRemembered ==
    [][/\ \A err \in Errors :
            PasswordRejected(err) =>
               IF CaptureFailed(err)
               THEN cancelled \/
                      /\ wf'.pc = "verify"
                      /\ wf'.failedUrlPasswordCapture
                      /\ wf'.validationErrorMessage = ConnectionFailed(err)
               ELSE ~wf'.failedUrlPasswordCapture
       /\ \A result \in PasswordResults :
            PasswordResolved(result) => ~wf'.failedUrlPasswordCapture
       /\ \A err \in Errors :
            (VerifyRejected(err) /\ ~IsControl(err)
                /\ wf.failedUrlPasswordCapture) =>
               /\ wf'.pc = "url"
               /\ wf'.shownError = wf.validationErrorMessage
               /\ wf'.shownError =
                     ConnectionFailed(Err("error", "Failed to fetch"))]_vars

\* The url prompt shows the message of the password negotiation after
\* the probe failed with a certificate error.
C33_Witness ==
    /\ wf.pc = "url"
    /\ wf.last = Event("verify", "selfCert")
    /\ wf.failedUrlPasswordCapture
    /\ wf.shownError = ConnectionFailed(Err("error", "Failed to fetch"))



\* ---------------------------------------------- claims, one write at a time
\* The callback of call i has settled.
Settled(i) == outcome[i] \in {"resolved", "rejected"}

Yielded(e) == {i \in 1..Len(e.log) : e.log[i][1] = "yield"}

\* C35: every output a call yields, from the execution of its code or
\* from an execution a chat handler caused, was handed to
\* trackDisplayDataForExtension and had its mime types added to the set
\* that the execution event reports.
C35_OutputsTracked ==
    \A c \in 1..Len(wrapper.execs) :
        LET e == wrapper.execs[c]
        IN  /\ Yielded(e) \subseteq e.registered
            /\ Yielded(e) \subseteq e.mimeTypes
            /\ (e.pc \in {"done", "returned", "thrown"} /\ e.delegated) =>
                  Yielded(e) \subseteq e.telemetry[Len(e.telemetry)].mimeTypes



\* ------------------------------------- claims, the cancelled execution
\* The output sequence of call e has terminated.
Terminated(e) == e.pc \in {"done", "returned", "thrown"}

\* What the wrapper does to the output sequence and to the kernel.
Sequence(e) == <<e.pc, e.log, e.depth, e.outputs, e.error>>

\* C36: when the token is signalled after the code was handed to the
\* execution and before the output sequence terminated, cancelled is set,
\* cancelledBeforeRequestSent and cancelledBeforeRequestAcknowledged are
\* set to whether the sent and the acknowledged signal had not fired at
\* that moment, and the event sent at termination reports these values; a
\* signal after termination changes neither the properties nor the event
\* sent; and the signal leaves the output sequence as it is.
C36_CancelledForTelemetry ==
    [][\A c \in 1..Len(wrapper.execs) :
          LET e == wrapper.execs[c]
              f == wrapper'.execs[c]
          IN  /\ CancellationRequested(c) =>
                    /\ Sequence(f) = Sequence(e)
                    /\ f.telemetry = e.telemetry
                    /\ IF Terminated(e) THEN f.properties = e.properties
                       ELSE /\ f.properties.cancelled
                            /\ f.properties.cancelledBeforeRequestSent =
                                   ~e.properties.requestSent
                            /\ f.properties.cancelledBeforeRequestAcknowledged =
                                   ~e.properties.requestAcknowledged
              /\ e.properties.cancelled =>
                    /\ f.properties.cancelled
                    /\ f.properties.cancelledBeforeRequestSent =
                           e.properties.cancelledBeforeRequestSent
                    /\ f.properties.cancelledBeforeRequestAcknowledged =
                           e.properties.cancelledBeforeRequestAcknowledged
              /\ (e.delegated /\ ~Terminated(e) /\ Terminated(f)) =>
                    /\ Len(f.telemetry) = 1
                    /\ f.telemetry[1].properties = e.properties]_vars

\* The event of a call whose token was signalled between the sent and
\* the acknowledged signal.
C36_Witness ==
    /\ Len(wrapper.execs) = 1
    /\ wrapper.execs[1].pc = "done"
    /\ Len(wrapper.execs[1].telemetry) = 1
    /\ wrapper.execs[1].telemetry[1].properties =
          [cancelled |-> TRUE, requestSent |-> TRUE,
           requestAcknowledged |-> TRUE,
           cancelledBeforeRequestSent |-> FALSE,
           cancelledBeforeRequestAcknowledged |-> TRUE]



\* ---------------------------------------------------------------- C37
\* C37: whenever no add, remove or clear is queued or running, no
\* getServers(false) load is in flight and no storage call has failed, a
\* loaded cache lists exactly the handles of the entries getServers would
\* load from the persisted payload; in particular a load that began before
\* a mutation leaves no older list in the cache once the mutation is done.
StorageQuiet ==
    /\ QueueIdle
    /\ jobpc = "idle"
    /\ rd.pc = "idle"
    /\ failedCalls = {}

C37_CacheMatchesPayload ==
    (StorageQuiet /\ servers.loaded)
        => HandlesOf(servers.list) = HandlesOf(getServersLoad(data).list)



\* ---------------------------------------------------------------- C38
\* C38: the handle a server is stored under is the handle that was given
\* to the getPasswordConnectionInfo call whose answer is in the stored
\* descriptor (when one resolved for the url), to the validateRemoteUri
\* call that resolved and to getDisplayName; no Back and no retry makes
\* them differ.
C38_OneHandlePerServer ==
    [][Len(calls') > Len(calls) =>
          /\ wf.probed.handle = Added.handle
          /\ wf.handle = Added.handle
          /\ wf.negotiated # 0 => wf.negotiated = Added.handle]_vars



\* ---------------------------------------------------------------- C39
\* The await before the current one ended in a failure: the seed url did
\* not validate, or the hub check, the password negotiation or the
\* connection probe rejected with an error that is no control signal.
FailedBefore(w) ==
    \/ w.last = Event("seed", "invalid")
    \/ /\ w.last.at \in {"hub", "password", "verify"}
       /\ w.last.what \in {"selfCert", "expiredCert", "error"}

\* C39: the url prompt is opened with a validation message only when the
\* await right before it failed (so no message is shown a second time
\* without a new failure), and a url prompt reached by Back after
\* validateRemoteUri resolved shows no message.
C39_ErrorOnlyAfterFailure ==
    [][(wf.pc # "url" /\ wf'.pc = "url") =>
          /\ wf'.shownError # NoMessage => FailedBefore(wf')
          /\ wf'.last = Event("name", "back") => wf'.shownError = NoMessage]_vars



\* ---------------------------------------------------------------- C40
\* The errors that end the output sequence of a call whose code was handed
\* to the execution.
SequenceErrors == {ExecutionFailure, ChatFunctionNotFound, HandlerFailed}

\* C40: the execution event of a call whose output sequence ended with a
\* thrown failure (the execution failed, a chat output named a function
\* without a handler, or a handler failed) carries failed = true, and an
\* event carries failed = false only for a sequence that ended without a
\* failure.
C40_FailedReported ==
    \A c \in 1..Len(wrapper.execs) :
        LET e == wrapper.execs[c]
        IN  \A k \in 1..Len(e.telemetry) :
              /\ (e.pc = "thrown" /\ e.error \in SequenceErrors) =>
                    e.telemetry[k].failed
              /\ ~e.telemetry[k].failed => e.pc \in {"done", "returned"}

=============================================================================
